---- MODULE Spec2Model ----
(***************************************************************************)
(* Influence-graph front end: the graph builders that turn an analysis     *)
(* report into nodes and edges, the report fetch controller and the node   *)
(* selection of the rendered graph.                                        *)
(*                                                                         *)
(* The repository holds several generations of the same components:        *)
(*   transformToGraphData      src/unnamed/part_000 (inside AnalysisContent)*)
(*   RelationshipGraph, maps   src/unnamed/part_001                        *)
(*   RelationshipGraph, merged src/components/relationship-graph.tsx:34    *)
(*   RelationshipGraph, chain  src/components/relationship-graph.tsx:378   *)
(* Each builder is modelled as its own operator and its own action.        *)
(*                                                                         *)
(* JavaScript strings are sequences of one-character strings, so that      *)
(* includes, trim, split, replace and match are computed and not assumed.  *)
(***************************************************************************)
EXTENDS Integers, Sequences, FiniteSets, TLC

(***************************************************************************)
(* Bounds of the model.                                                    *)
(***************************************************************************)
MaxChains == 2

MaxRequests == 3

MaxClicks == 3

MaxResizes == 1

(***************************************************************************)
(* String literals of the sources and of the reports fed to them.          *)
(***************************************************************************)
S_Unknown == << "U", "n", "k", "n", "o", "w", "n" >>

S_input1 == << "i", "n", "p", "u", "t", "-", "1" >>

S_policyDash == << "p", "o", "l", "i", "c", "y", "-" >>

S_sectorDash == << "s", "e", "c", "t", "o", "r", "-" >>

S_enterpriseDash == << "e", "n", "t", "e", "r", "p", "r", "i", "s", "e", "-" >>

S_UnknownSector == << "U", "n", "k", "n", "o", "w", "n", " ", "S", "e", "c", "t", "o", "r" >>

S_NoDescription == << "N", "o", " ", "d", "e", "s", "c", "r", "i", "p", "t", "i", "o", "n", " ", "a", "v", "a", "i", "l", "a", "b", "l", "e" >>

S_NoneDirectlyLinked == << "N", "o", "n", "e", " ", "d", "i", "r", "e", "c", "t", "l", "y", " ", "l", "i", "n", "k", "e", "d" >>

S_NA == << "N", "/", "A" >>

S_edgeInputPolicy == << "e", "d", "g", "e", "-", "i", "n", "p", "u", "t", "-", "p", "o", "l", "i", "c", "y", "-" >>

S_edgeInputSector == << "e", "d", "g", "e", "-", "i", "n", "p", "u", "t", "-", "s", "e", "c", "t", "o", "r", "-" >>

S_edgePolicySector == << "e", "d", "g", "e", "-", "p", "o", "l", "i", "c", "y", "-", "s", "e", "c", "t", "o", "r", "-" >>

S_edgeSectorCompany == << "e", "d", "g", "e", "-", "s", "e", "c", "t", "o", "r", "-", "c", "o", "m", "p", "a", "n", "y", "-" >>

S_polDash == << "p", "o", "l", "-" >>

S_compDash == << "c", "o", "m", "p", "-" >>

S_edgeDash == << "e", "d", "g", "e", "-" >>

S_root == << "r", "o", "o", "t" >>

S_Input == << "I", "n", "p", "u", "t" >>

S_companyDash == << "c", "o", "m", "p", "a", "n", "y", "-" >>

S_Dash == << "-" >>

S_Bar == << "|" >>

S_BlankLine == << "\n", "\n" >>

S_A == << "A" >>

S_B == << "B" >>

S_P1 == << "P", "1" >>

S_S1 == << "S", "1" >>

S_S2 == << "S", "2" >>

S_C1 == << "C", "1" >>

S_C2 == << "C", "2" >>

S_desc1 == << "d", "e", "s", "c", "1" >>

S_desc2 == << "d", "e", "s", "c", "2" >>

S_t1 == << "t", "1" >>

S_u1 == << "u", "1" >>

S_t2 == << "t", "2" >>

S_u2 == << "u", "2" >>

S_Acme == << "A", "c", "m", "e" >>

S_AcmeCode == << "A", "c", "m", "e", " ", "(", "0", "0", "5", "9", "3", "0", ")" >>


S_q1 == << "q", "1" >>

S_q2 == << "q", "2" >>

\* "간접적 영향" (part_000:127), one element per character
S_IndirectImpact == << "U+AC04", "U+C811", "U+C801", " ", "U+C601", "U+D5A5" >>

\* user-facing failure message of the fetch controller (analysis-content.tsx:55)
S_FetchFailed == << "fetch-failed" >>

\* the JavaScript value undefined / null where a string is expected
Undefined == << "undefined" >>

EmptyString == << >>

(***************************************************************************)
(* JavaScript string primitives.                                           *)
(***************************************************************************)
Truthy(s) == s # Undefined /\ s # EmptyString

\* a || b on strings
OrElse(a, b) == IF Truthy(a) THEN a ELSE b

IsWhitespace(c) == c \in {" ", "\t", "\n"}

IsDigit(c) == c \in {"0", "1", "2", "3", "4", "5", "6", "7", "8", "9"}

UpperCase == << "A", "B", "C", "D", "E", "F", "G", "H", "I", "J", "K", "L", "M", "N", "O", "P", "Q", "R", "S", "T", "U", "V", "W", "X", "Y", "Z" >>

LowerCase == << "a", "b", "c", "d", "e", "f", "g", "h", "i", "j", "k", "l", "m", "n", "o", "p", "q", "r", "s", "t", "u", "v", "w", "x", "y", "z" >>

ToLowerChar(c) == IF \E i \in 1..Len(UpperCase) : UpperCase[i] = c THEN LowerCase[CHOOSE i \in 1..Len(UpperCase) : UpperCase[i] = c] ELSE c

toLowerCase(s) == [i \in 1..Len(s) |-> ToLowerChar(s[i])]

\* String.prototype.includes
includes(s, sub) == \E i \in 0..(Len(s) - Len(sub)) : SubSeq(s, i + 1, i + Len(sub)) = sub

RECURSIVE trimStart(_)
trimStart(s) == IF s # << >> /\ IsWhitespace(Head(s)) THEN trimStart(Tail(s)) ELSE s

RECURSIVE trimEnd(_)
trimEnd(s) == IF s # << >> /\ IsWhitespace(s[Len(s)]) THEN trimEnd(SubSeq(s, 1, Len(s) - 1)) ELSE s

trim(s) == trimEnd(trimStart(s))

\* s.replace(/\s+/g, "-"): every maximal run of whitespace becomes one dash
RECURSIVE replaceWhitespaceRuns(_)
replaceWhitespaceRuns(s) ==
    IF s = << >> THEN << >>
    ELSE IF IsWhitespace(Head(s)) THEN << "-" >> \o replaceWhitespaceRuns(trimStart(s))
    ELSE << Head(s) >> \o replaceWhitespaceRuns(Tail(s))

\* index of the first occurrence of character c in s, 0 when there is none
indexOfChar(s, c) == IF \E i \in 1..Len(s) : s[i] = c THEN CHOOSE i \in 1..Len(s) : s[i] = c /\ \A j \in 1..(i - 1) : s[j] # c ELSE 0

\* s.split(c)[1]: the text between the first and the second occurrence of c
splitSecond(s, c) ==
    LET rest == SubSeq(s, indexOfChar(s, c) + 1, Len(s))
        stop == indexOfChar(rest, c)
    IN  IF stop = 0 THEN rest ELSE SubSeq(rest, 1, stop - 1)

\* s.replace(c, ""): removes the first occurrence of c only
removeFirstChar(s, c) ==
    LET i == indexOfChar(s, c)
    IN  IF i = 0 THEN s ELSE SubSeq(s, 1, i - 1) \o SubSeq(s, i + 1, Len(s))

DigitChars == << "0", "1", "2", "3", "4", "5", "6", "7", "8", "9" >>

\* template-literal rendering of a non-negative integer
RECURSIVE NumToStr(_)
NumToStr(n) == IF n < 10 THEN << DigitChars[n + 1] >> ELSE NumToStr(n \div 10) \o << DigitChars[(n % 10) + 1] >>

\* Math.round of the rational n / d, d > 0 (halves round up)
MathRound(n, d) == (2 * n + d) \div (2 * d)

\* String.prototype.match(/$$(\d+)$$/) as written at part_001:112 and
\* relationship-graph.tsx:465.  Without the m flag "$" only matches at the end
\* of the input, so the pattern asks for the end of the input, then one or more
\* digits, then the end of the input again.  The result is capture group 1 of
\* the leftmost, longest match, or Undefined when match returns null.
symbolMatch(company) ==
    LET AtEnd(p) == p = Len(company)
        matches == { m \in (0..Len(company)) \X (0..Len(company)) :
                        /\ AtEnd(m[1])
                        /\ m[2] > m[1]
                        /\ \A k \in (m[1] + 1)..m[2] : IsDigit(company[k])
                        /\ AtEnd(m[2]) }
    IN  IF matches = {} THEN Undefined
        ELSE LET m == CHOOSE m \in matches : \A o \in matches : m[1] < o[1] \/ (m[1] = o[1] /\ m[2] >= o[2])
             IN  SubSeq(company, m[1] + 1, m[2])

(***************************************************************************)
(* Insertion-ordered Map and array helpers.                                *)
(***************************************************************************)
MapHas(map, key) == \E i \in 1..Len(map) : map[i].key = key

MapIndex(map, key) == CHOOSE i \in 1..Len(map) : map[i].key = key

MapGet(map, key) == map[MapIndex(map, key)].value

\* Map.prototype.set: a new key is appended, an existing key keeps its place
MapSet(map, key, value) == IF MapHas(map, key) THEN [map EXCEPT ![MapIndex(map, key)].value = value] ELSE Append(map, [key |-> key, value |-> value])

MapValues(map) == [i \in 1..Len(map) |-> map[i].value]

\* Array.prototype.find on node.label: index of the first hit, 0 for undefined
FindByLabel(list, label) == IF \E i \in 1..Len(list) : list[i].label = label THEN CHOOSE i \in 1..Len(list) : list[i].label = label /\ \A j \in 1..(i - 1) : list[j].label # label ELSE 0

FindById(list, id) == IF \E i \in 1..Len(list) : list[i].id = id THEN CHOOSE i \in 1..Len(list) : list[i].id = id /\ \A j \in 1..(i - 1) : list[j].id # id ELSE 0

(***************************************************************************)
(* Reports, chains, nodes and edges.                                       *)
(***************************************************************************)
\* a value that may or may not be an array
Arr(items) == [isArray |-> TRUE, items |-> items]

NoArray == [isArray |-> FALSE, items |-> << >>]

\* Array.isArray(x) ? x : []
ArrayOrEmpty(x) == IF x.isArray THEN x ELSE Arr(<< >>)

Evidence(title, url) == [source_title |-> title, url |-> url]

InfluenceChain(politician, policy, sector, companies, impact, evidence) == [isNull |-> FALSE, politician |-> politician, policy |-> policy, industry_or_sector |-> sector, companies |-> companies, impact_description |-> impact, evidence |-> evidence]

NullChain == [isNull |-> TRUE, politician |-> Undefined, policy |-> Undefined, industry_or_sector |-> Undefined, companies |-> NoArray, impact_description |-> Undefined, evidence |-> NoArray]

\* AnalysisReport as it reaches the component: the data prop itself may be
\* missing, and influence_chains may be missing, a non-array or an array
Report(chains) == [isNull |-> FALSE, hasChains |-> TRUE, influence_chains |-> Arr(chains)]

NullReport == [isNull |-> TRUE, hasChains |-> FALSE, influence_chains |-> NoArray]

ReportWithoutChains == [isNull |-> FALSE, hasChains |-> FALSE, influence_chains |-> NoArray]

ReportWithNonArrayChains == [isNull |-> FALSE, hasChains |-> TRUE, influence_chains |-> NoArray]

NoStock == [present |-> FALSE, symbol |-> Undefined, price |-> 0, change |-> 0, changePercent |-> 0]

StockData(symbol, price, change, changePercent) == [present |-> TRUE, symbol |-> symbol, price |-> price, change |-> change, changePercent |-> changePercent]

\* ProcessedNode / GraphNode with every data field the builders use
BlankNode == [id |-> Undefined, type |-> "input", label |-> Undefined, fullText |-> Undefined, policy |-> Undefined, description |-> Undefined, sector |-> Undefined, impact_description |-> Undefined, impactDescription |-> Undefined, evidence |-> NoArray, stockData |-> NoStock]

\* ProcessedEdge / GraphEdge / GraphLink
Edge(id, source, target, description, evidence) == [id |-> id, source |-> source, target |-> target, description |-> description, evidence |-> evidence]

Graph(nodes, edges) == [nodes |-> nodes, edges |-> edges, threw |-> FALSE]

\* the builder ended in an uncaught TypeError
Thrown == [nodes |-> << >>, edges |-> << >>, threw |-> TRUE]

(***************************************************************************)
(* RelationshipGraph of part_001: useMemo builder with policy, sector and  *)
(* company maps (lines 40-200).                                            *)
(***************************************************************************)
IsPolicyLinked(policy) == Truthy(policy) /\ policy # S_NoneDirectlyLinked /\ trim(policy) # EmptyString

MemoPolicyNode(chain, size) == [BlankNode EXCEPT !.id = S_policyDash \o NumToStr(size + 1), !.label = chain.policy, !.fullText = chain.policy, !.type = "policy", !.description = chain.policy, !.evidence = ArrayOrEmpty(chain.evidence)]

MemoSectorNode(chain, sector, size) == [BlankNode EXCEPT !.id = S_sectorDash \o NumToStr(size + 1), !.label = sector, !.type = "sector", !.sector = sector, !.impact_description = OrElse(chain.impact_description, S_NoDescription)]

MemoCompanyNode(company, size) == [BlankNode EXCEPT !.id = S_enterpriseDash \o NumToStr(size + 1), !.label = company, !.type = "enterprise", !.stockData = StockData(IF symbolMatch(company) # Undefined THEN symbolMatch(company) ELSE S_NA, 0, 0, 0)]

IsCompanyName(company) == Truthy(company) /\ trim(company) # EmptyString

RECURSIVE MemoAddCompanies(_, _)
MemoAddCompanies(companyMap, companies) ==
    IF companies = << >> THEN companyMap
    ELSE LET company == Head(companies)
         IN  IF IsCompanyName(company) /\ ~MapHas(companyMap, company)
             THEN MemoAddCompanies(MapSet(companyMap, company, MemoCompanyNode(company, Len(companyMap))), Tail(companies))
             ELSE MemoAddCompanies(companyMap, Tail(companies))

\* first forEach (lines 69-130): one chain's contribution to the three maps
MemoCollectChain(maps, chain) ==
    IF chain.isNull THEN maps
    ELSE LET sector == OrElse(chain.industry_or_sector, S_UnknownSector)
         IN  [policyMap |-> IF IsPolicyLinked(chain.policy) /\ ~MapHas(maps.policyMap, chain.policy)
                            THEN MapSet(maps.policyMap, chain.policy, MemoPolicyNode(chain, Len(maps.policyMap)))
                            ELSE maps.policyMap,
              sectorMap |-> IF ~MapHas(maps.sectorMap, sector)
                            THEN MapSet(maps.sectorMap, sector, MemoSectorNode(chain, sector, Len(maps.sectorMap)))
                            ELSE maps.sectorMap,
              companyMap |-> IF chain.companies.isArray
                             THEN MemoAddCompanies(maps.companyMap, chain.companies.items)
                             ELSE maps.companyMap]

RECURSIVE MemoCollect(_, _)
MemoCollect(maps, chains) == IF chains = << >> THEN maps ELSE MemoCollect(MemoCollectChain(maps, Head(chains)), Tail(chains))

HasEdgeId(edges, edgeId) == \E i \in 1..Len(edges) : edges[i].id = edgeId

RECURSIVE MemoCompanyEdges(_, _, _, _)
MemoCompanyEdges(edges, sectorNode, companies, companyList) ==
    IF companies = << >> THEN edges
    ELSE LET company == Head(companies)
             found == FindByLabel(companyList, company)
             edgeId == S_edgeSectorCompany \o sectorNode.id \o S_Dash \o companyList[found].id
         IN  IF IsCompanyName(company) /\ found # 0 /\ ~HasEdgeId(edges, edgeId)
             THEN MemoCompanyEdges(Append(edges, Edge(edgeId, sectorNode.id, companyList[found].id, Undefined, NoArray)), sectorNode, Tail(companies), companyList)
             ELSE MemoCompanyEdges(edges, sectorNode, Tail(companies), companyList)

\* an edge pass without the Input -> Sector fallback
MemoInputEdgeNoFallback(edges, chain, idx, policyList, sectorList) ==
    LET policyAt == FindByLabel(policyList, chain.policy)
    IN  IF policyAt # 0
        THEN Append(edges, Edge(S_edgeInputPolicy \o NumToStr(idx), S_input1, policyList[policyAt].id, Undefined, ArrayOrEmpty(chain.evidence)))
        ELSE edges

\* Input -> Policy, or Input -> Sector when the chain has no policy node
\* (lines 144-160): pushed for every chain
MemoInputEdge(edges, chain, idx, policyList, sectorList) ==
    LET policyAt == FindByLabel(policyList, chain.policy)
        sectorAt == FindByLabel(sectorList, OrElse(chain.industry_or_sector, S_UnknownSector))
    IN  IF policyAt # 0
        THEN Append(edges, Edge(S_edgeInputPolicy \o NumToStr(idx), S_input1, policyList[policyAt].id, Undefined, ArrayOrEmpty(chain.evidence)))
        ELSE IF sectorAt # 0
        THEN Append(edges, Edge(S_edgeInputSector \o NumToStr(idx), S_input1, sectorList[sectorAt].id, Undefined, NoArray))
        ELSE edges

\* an edge pass that draws the policy edge from the sector back to the policy
MemoPolicySectorEdgeReversed(edges, chain, policyList, sectorList) ==
    LET policyAt == FindByLabel(policyList, chain.policy)
        sectorAt == FindByLabel(sectorList, OrElse(chain.industry_or_sector, S_UnknownSector))
        edgeId == S_edgePolicySector \o policyList[policyAt].id \o S_Dash \o sectorList[sectorAt].id
    IN  IF policyAt # 0 /\ sectorAt # 0 /\ ~HasEdgeId(edges, edgeId)
        THEN Append(edges, Edge(edgeId, sectorList[sectorAt].id, policyList[policyAt].id, Undefined, NoArray))
        ELSE edges

\* Policy -> Sector (lines 162-174), skipped when an edge has that id
MemoPolicySectorEdge(edges, chain, policyList, sectorList) ==
    LET policyAt == FindByLabel(policyList, chain.policy)
        sectorAt == FindByLabel(sectorList, OrElse(chain.industry_or_sector, S_UnknownSector))
        edgeId == S_edgePolicySector \o policyList[policyAt].id \o S_Dash \o sectorList[sectorAt].id
    IN  IF policyAt # 0 /\ sectorAt # 0 /\ ~HasEdgeId(edges, edgeId)
        THEN Append(edges, Edge(edgeId, policyList[policyAt].id, sectorList[sectorAt].id, Undefined, NoArray))
        ELSE edges

\* second forEach (lines 137-196): one chain's edges
MemoChainEdges(edges, chain, idx, maps) ==
    IF chain.isNull THEN edges
    ELSE LET policyList == MapValues(maps.policyMap)
             sectorList == MapValues(maps.sectorMap)
             sectorAt == FindByLabel(sectorList, OrElse(chain.industry_or_sector, S_UnknownSector))
             afterInput == MemoInputEdge(edges, chain, idx, policyList, sectorList)
             afterPolicy == MemoPolicySectorEdge(afterInput, chain, policyList, sectorList)
         IN  IF chain.companies.isArray /\ sectorAt # 0
             THEN MemoCompanyEdges(afterPolicy, sectorList[sectorAt], chain.companies.items, MapValues(maps.companyMap))
             ELSE afterPolicy

RECURSIVE MemoEdges(_, _, _, _)
MemoEdges(edges, chains, idx, maps) == IF chains = << >> THEN edges ELSE MemoEdges(MemoChainEdges(edges, Head(chains), idx, maps), Tail(chains), idx + 1, maps)

EmptyMaps == [policyMap |-> << >>, sectorMap |-> << >>, companyMap |-> << >>]

\* politician = data.influence_chains[0]?.politician || "Unknown"
InputNode(chains, fallback, id) == [BlankNode EXCEPT !.id = id, !.label = OrElse(IF Head(chains).isNull THEN Undefined ELSE Head(chains).politician, fallback), !.type = "input"]

\* safety check of lines 45-50
IsEmptyReport(data) == data.isNull \/ ~data.hasChains \/ ~data.influence_chains.isArray \/ Len(data.influence_chains.items) = 0

BuildMemo(data) ==
    IF IsEmptyReport(data) THEN Graph(<< >>, << >>)
    ELSE LET chains == data.influence_chains.items
             maps == MemoCollect(EmptyMaps, chains)
         IN  Graph(<< InputNode(chains, S_Unknown, S_input1) >> \o MapValues(maps.policyMap) \o MapValues(maps.sectorMap) \o MapValues(maps.companyMap),
                   MemoEdges(<< >>, chains, 0, maps))

(***************************************************************************)
(* transformToGraphData of part_000 (lines 86-202).                        *)
(***************************************************************************)
\* Math.random(): a pseudo-random generator whose seed the program does not
\* control.  The generator state is a residue below RngModulus, the value
\* returned is state / RngModulus, and every call advances the state.
RngModulus == 4

RngNext(state) == (state + 3) % RngModulus

\* id fragment: label.replace(/\s+/g, "-").toLowerCase()
Slug(label) == toLowerCase(replaceWhitespaceRuns(label))

\* addNode (lines 93-105): appended only when the id is new
addNode(nodes, id, type, label, data) == IF FindById(nodes, id) # 0 THEN nodes ELSE Append(nodes, [data EXCEPT !.id = id, !.type = type, !.label = label])

EdgeExists(edges, source, target) == \E i \in 1..Len(edges) : edges[i].source = source /\ edges[i].target = target

\* an addEdge that never advances the counter its ids are made from
addEdgeSameCounter(st, source, target, description, evidence) ==
    IF EdgeExists(st.edges, source, target) THEN st
    ELSE [st EXCEPT !.edges = Append(st.edges, Edge(S_edgeDash \o NumToStr(st.edgeIdCounter), source, target, description, evidence))]

\* addEdge (lines 108-118) on the pair (edges, edgeIdCounter)
addEdge(st, source, target, description, evidence) ==
    IF EdgeExists(st.edges, source, target) THEN st
    ELSE [st EXCEPT !.edges = Append(st.edges, Edge(S_edgeDash \o NumToStr(st.edgeIdCounter), source, target, description, evidence)),
                    !.edgeIdCounter = st.edgeIdCounter + 1]

\* stockData.symbol (line 184)
TransformSymbol(company) == IF includes(company, << "(" >>) THEN removeFirstChar(splitSecond(company, "("), ")") ELSE S_NA

\* lines 178-190: three Math.random() calls, then the stock snapshot.
\* changePercent is kept in units of 1 / RngModulus.
TransformStockData(company, rng) ==
    LET r1 == rng
        r2 == RngNext(r1)
        r3 == RngNext(r2)
        isPositive == 2 * r1 > RngModulus
        changeValue == IF isPositive THEN 5 * r2 ELSE -(5 * r2)
        price == 50000 * RngModulus + 100000 * r3
    IN  StockData(TransformSymbol(company), MathRound(price, RngModulus), MathRound(changeValue * price, 100 * RngModulus * RngModulus), changeValue)

RECURSIVE TransformCompanies(_, _, _, _)
TransformCompanies(st, chain, sectorId, companies) ==
    IF companies = << >> \/ st.threw THEN st
    ELSE LET company == Head(companies)
             companyId == S_compDash \o Slug(company)
             node == [BlankNode EXCEPT !.stockData = TransformStockData(company, st.rng), !.evidence = chain.evidence]
             added == [st EXCEPT !.nodes = addNode(st.nodes, companyId, "enterprise", company, node),
                                 !.rng = RngNext(RngNext(RngNext(st.rng)))]
         IN  IF company = Undefined THEN [st EXCEPT !.threw = TRUE]
             ELSE TransformCompanies(addEdge(added, sectorId, companyId, << "company-link" >>, chain.evidence), chain, sectorId, Tail(companies))

\* lines 141-159: the sector node and its accumulated description
TransformSector(nodes, chain, sectorId) ==
    LET existingAt == FindById(nodes, sectorId)
        existing == nodes[existingAt]
        sectorDescription == IF existingAt # 0 /\ Truthy(existing.description)
                             THEN IF ~includes(existing.description, chain.impact_description)
                                  THEN existing.description \o S_BlankLine \o chain.impact_description
                                  ELSE existing.description
                             ELSE chain.impact_description
        added == addNode(nodes, sectorId, "sector", chain.industry_or_sector, [BlankNode EXCEPT !.description = sectorDescription])
    IN  [added EXCEPT ![FindById(added, sectorId)].description = sectorDescription]

\* body of the forEach over influence_chains (lines 121-198)
TransformChain(st, chain, index) ==
    IF st.threw THEN st
    ELSE IF chain.isNull \/ chain.politician = Undefined \/ chain.policy = Undefined \/ chain.industry_or_sector = Undefined \/ ~chain.companies.isArray
    THEN [st EXCEPT !.threw = TRUE]
    ELSE LET politicianId == S_polDash \o Slug(chain.politician)
             policyLabel == IF chain.policy = S_NoneDirectlyLinked THEN S_IndirectImpact ELSE chain.policy
             policyId == S_policyDash \o NumToStr(index) \o S_Dash \o Slug(policyLabel)
             sectorId == S_sectorDash \o Slug(chain.industry_or_sector)
             withInput == addNode(st.nodes, politicianId, "input", chain.politician, BlankNode)
             withPolicy == addNode(withInput, policyId, "policy", policyLabel, [BlankNode EXCEPT !.evidence = chain.evidence])
             st1 == addEdge([st EXCEPT !.nodes = withPolicy], politicianId, policyId, << "policy-link" >>, chain.evidence)
             st2 == addEdge([st1 EXCEPT !.nodes = TransformSector(st1.nodes, chain, sectorId)], policyId, sectorId, << "sector-link" >>, chain.evidence)
         IN  TransformCompanies(st2, chain, sectorId, chain.companies.items)

RECURSIVE TransformChains(_, _, _)
TransformChains(st, chains, index) == IF chains = << >> THEN st ELSE TransformChains(TransformChain(st, Head(chains), index), Tail(chains), index + 1)

\* the result carries the generator state left behind by the calls
transformToGraphData(response, rng) ==
    LET start == [nodes |-> << >>, edges |-> << >>, edgeIdCounter |-> 0, rng |-> rng, threw |-> FALSE]
        end == TransformChains(start, response.influence_chains.items, 0)
    IN  IF response.isNull \/ ~response.hasChains \/ ~response.influence_chains.isArray THEN [graph |-> Thrown, rng |-> rng]
        ELSE IF end.threw THEN [graph |-> Thrown, rng |-> end.rng]
        ELSE [graph |-> Graph(end.nodes, end.edges), rng |-> end.rng]

(***************************************************************************)
(* RelationshipGraph of relationship-graph.tsx:34, useMemo builder with    *)
(* merging (lines 56-147).                                                 *)
(***************************************************************************)
\* table imported from "@/lib/mock-data" (line 9); its entries are not part of
\* the sources, a name without an entry reads as undefined
mockStockData(companyName) == NoStock

HasUrl(sources, url) == \E i \in 1..Len(sources) : sources[i].url = url

\* lines 91-99: push every entry whose url is not yet among the sources
RECURSIVE MergeEvidence(_, _)
MergeEvidence(sources, evidence) ==
    IF evidence = << >> THEN sources
    ELSE IF HasUrl(sources, Head(evidence).url) THEN MergeEvidence(sources, Tail(evidence))
    ELSE MergeEvidence(Append(sources, Head(evidence)), Tail(evidence))

\* Set.prototype.add on an insertion-ordered set of strings
SetAdd(set, str) == IF \E i \in 1..Len(set) : set[i] = str THEN set ELSE Append(set, str)

\* addLink (lines 71-73)
addLink(linksSet, source, target) == SetAdd(linksSet, source \o S_Bar \o target)

\* str.split("|")[0]
splitFirst(s, c) == IF indexOfChar(s, c) = 0 THEN s ELSE SubSeq(s, 1, indexOfChar(s, c) - 1)

\* lines 144-147: const [source, target] = str.split("|")
LinkOf(str) == [source |-> splitFirst(str, "|"), target |-> IF indexOfChar(str, "|") = 0 THEN Undefined ELSE splitSecond(str, "|")]

\* lines 78-100: the policy node; sources aliases the evidence array of the
\* chain that created the node, recorded in aliasOf
MergedPolicy(st, chain, index) ==
    LET policyId == S_policyDash \o chain.policy
        existing == MapGet(st.nodesMap, policyId)
    IN  IF ~MapHas(st.nodesMap, policyId)
        THEN [st EXCEPT !.nodesMap = MapSet(st.nodesMap, policyId, [BlankNode EXCEPT !.id = policyId, !.type = "policy", !.label = chain.policy, !.evidence = ArrayOrEmpty(chain.evidence)]),
                        !.aliasOf = IF chain.evidence.isArray THEN Append(st.aliasOf, [id |-> policyId, chain |-> index]) ELSE st.aliasOf]
        ELSE IF chain.evidence.isArray
        THEN [st EXCEPT !.nodesMap = MapSet(st.nodesMap, policyId, [existing EXCEPT !.evidence = Arr(MergeEvidence(existing.evidence.items, chain.evidence.items))])]
        ELSE st

\* lines 104-122: the sector node; a description of at most 10 characters is
\* never appended
MergedSector(st, chain) ==
    LET sectorId == S_sectorDash \o chain.industry_or_sector
        existing == MapGet(st.nodesMap, sectorId)
    IN  IF ~MapHas(st.nodesMap, sectorId)
        THEN [st EXCEPT !.nodesMap = MapSet(st.nodesMap, sectorId, [BlankNode EXCEPT !.id = sectorId, !.type = "sector", !.label = chain.industry_or_sector, !.description = chain.impact_description])]
        ELSE IF Truthy(existing.description) /\ ~includes(existing.description, chain.impact_description)
        THEN IF chain.impact_description = Undefined THEN [st EXCEPT !.threw = TRUE]
             ELSE IF Len(chain.impact_description) > 10
             THEN [st EXCEPT !.nodesMap = MapSet(st.nodesMap, sectorId, [existing EXCEPT !.description = existing.description \o S_BlankLine \o chain.impact_description])]
             ELSE st
        ELSE st

RECURSIVE MergedCompanies(_, _, _)
MergedCompanies(st, sectorId, companies) ==
    IF companies = << >> THEN st
    ELSE LET companyName == Head(companies)
             companyId == S_companyDash \o companyName
             withNode == IF MapHas(st.nodesMap, companyId) THEN st.nodesMap
                         ELSE MapSet(st.nodesMap, companyId, [BlankNode EXCEPT !.id = companyId, !.type = "company", !.label = companyName, !.stockData = mockStockData(companyName)])
         IN  MergedCompanies([st EXCEPT !.nodesMap = withNode, !.linksSet = addLink(st.linksSet, sectorId, companyId)], sectorId, Tail(companies))

\* body of the forEach over influence_chains (lines 76-140)
MergedChain(st, chain, index) ==
    IF st.threw THEN st
    ELSE IF chain.isNull THEN [st EXCEPT !.threw = TRUE]
    ELSE LET policyId == S_policyDash \o chain.policy
             sectorId == S_sectorDash \o chain.industry_or_sector
             st1 == MergedPolicy(st, chain, index)
             st2 == MergedSector([st1 EXCEPT !.linksSet = addLink(st1.linksSet, S_root, policyId)], chain)
             st3 == [st2 EXCEPT !.linksSet = addLink(st2.linksSet, policyId, sectorId)]
         IN  IF st2.threw THEN st2
             ELSE IF ~chain.companies.isArray THEN [st3 EXCEPT !.threw = TRUE]
             ELSE MergedCompanies(st3, sectorId, chain.companies.items)

RECURSIVE MergedChains(_, _, _)
MergedChains(st, chains, index) == IF chains = << >> THEN st ELSE MergedChains(MergedChain(st, Head(chains), index), Tail(chains), index + 1)

\* the report after the build: the evidence array of a chain that created a
\* policy node is the node's sources array, pushes included
RECURSIVE WriteBack(_, _, _)
WriteBack(chains, aliasOf, nodesMap) ==
    IF aliasOf = << >> THEN chains
    ELSE WriteBack([chains EXCEPT ![Head(aliasOf).chain].evidence = MapGet(nodesMap, Head(aliasOf).id).evidence], Tail(aliasOf), nodesMap)

\* result: the graph and the report as the build leaves it
BuildMerged(data) ==
    IF data.isNull \/ ~data.hasChains THEN [graph |-> Thrown, data |-> data]
    ELSE LET chains == data.influence_chains.items
             root == [BlankNode EXCEPT !.id = S_root, !.type = "input", !.label = IF chains = << >> THEN S_Input ELSE OrElse(IF Head(chains).isNull THEN Undefined ELSE Head(chains).politician, S_Input)]
             start == [nodesMap |-> MapSet(<< >>, S_root, root), linksSet |-> << >>, aliasOf |-> << >>, threw |-> FALSE]
             end == MergedChains(start, chains, 1)
             after == [data EXCEPT !.influence_chains.items = WriteBack(chains, end.aliasOf, end.nodesMap)]
         IN  IF ~data.influence_chains.isArray THEN [graph |-> Thrown, data |-> data]
             ELSE IF end.threw THEN [graph |-> Thrown, data |-> after]
             ELSE [graph |-> Graph(MapValues(end.nodesMap), [i \in 1..Len(end.linksSet) |-> Edge(Undefined, LinkOf(end.linksSet[i]).source, LinkOf(end.linksSet[i]).target, Undefined, NoArray)]), data |-> after]

(***************************************************************************)
(* RelationshipGraph of relationship-graph.tsx:378, useMemo builder with   *)
(* one policy and one sector node per chain (lines 385-495).               *)
(***************************************************************************)
RECURSIVE ChainCompanyNodes(_, _, _)
ChainCompanyNodes(companies, idx, companyIdx) ==
    IF companies = << >> THEN << >>
    ELSE LET company == Head(companies)
             node == [BlankNode EXCEPT !.id = S_enterpriseDash \o NumToStr(idx) \o S_Dash \o NumToStr(companyIdx), !.label = company, !.type = "enterprise",
                                       !.stockData = StockData(IF symbolMatch(company) # Undefined THEN symbolMatch(company) ELSE S_NA, 0, 0, 0)]
         IN  (IF IsCompanyName(company) THEN << node >> ELSE << >>) \o ChainCompanyNodes(Tail(companies), idx, companyIdx + 1)

ChainPolicyNode(chain, idx) ==
    LET policyLabel == IF Truthy(chain.policy) /\ trim(chain.policy) # EmptyString THEN chain.policy ELSE S_NoneDirectlyLinked
    IN  [BlankNode EXCEPT !.id = S_policyDash \o NumToStr(idx), !.label = policyLabel, !.fullText = policyLabel, !.type = "policy", !.policy = policyLabel, !.description = policyLabel, !.evidence = ArrayOrEmpty(chain.evidence)]

ChainSectorNode(chain, idx) ==
    LET sector == OrElse(chain.industry_or_sector, S_UnknownSector)
        impactDescription == OrElse(chain.impact_description, S_NoDescription)
    IN  [BlankNode EXCEPT !.id = S_sectorDash \o NumToStr(idx), !.label = sector, !.type = "sector", !.sector = sector, !.impactDescription = impactDescription, !.impact_description = impactDescription]

\* forEach of lines 415-482: the three per-tier lists
RECURSIVE ChainNodes(_, _, _)
ChainNodes(lists, chains, idx) ==
    IF chains = << >> THEN lists
    ELSE LET chain == Head(chains)
         IN  IF chain.isNull THEN ChainNodes(lists, Tail(chains), idx + 1)
             ELSE ChainNodes([policyNodes |-> Append(lists.policyNodes, ChainPolicyNode(chain, idx)),
                              sectorNodes |-> Append(lists.sectorNodes, ChainSectorNode(chain, idx)),
                              companyNodes |-> lists.companyNodes \o (IF chain.companies.isArray THEN ChainCompanyNodes(chain.companies.items, idx, 0) ELSE << >>)],
                             Tail(chains), idx + 1)

BuildPerChain(data) ==
    IF IsEmptyReport(data) THEN Graph(<< >>, << >>)
    ELSE LET chains == data.influence_chains.items
             lists == ChainNodes([policyNodes |-> << >>, sectorNodes |-> << >>, companyNodes |-> << >>], chains, 0)
         IN  Graph(<< InputNode(chains, S_Unknown, S_input1) >> \o lists.policyNodes \o lists.sectorNodes \o lists.companyNodes, << >>)

(***************************************************************************)
(* Geometry: numbers, sorting and the three layout computations.           *)
(* Coordinates are exact rationals n / d with d > 0 in lowest terms; the   *)
(* rounding of the JavaScript doubles is not modelled.                     *)
(***************************************************************************)
RECURSIVE GCD(_, _)
GCD(a, b) == IF b = 0 THEN a ELSE GCD(b, a % b)

Abs(n) == IF n < 0 THEN -n ELSE n

Q(n, d) == LET g == GCD(Abs(n), d) IN [n |-> n \div g, d |-> d \div g]

QInt(k) == [n |-> k, d |-> 1]

QAdd(a, b) == Q(a.n * b.d + b.n * a.d, a.d * b.d)

QMul(a, b) == Q(a.n * b.n, a.d * b.d)

\* a / k for an integer k > 0
QDiv(a, k) == Q(a.n, a.d * k)

QLess(a, b) == a.n * b.d < b.n * a.d

\* Math.max
QMax(a, b) == IF QLess(a, b) THEN b ELSE a

RECURSIVE QSum(_)
QSum(seq) == IF seq = << >> THEN QInt(0) ELSE QAdd(Head(seq), QSum(Tail(seq)))

\* Array.prototype.sort with a comparator that is a strict weak order: the
\* sort is stable, equal elements keep their order
StableSort(list, Less(_, _)) ==
    LET rank(i) == 1 + Cardinality({ j \in 1..Len(list) : Less(list[j], list[i]) \/ (~Less(list[i], list[j]) /\ j < i) })
    IN  [k \in 1..Len(list) |-> list[CHOOSE i \in 1..Len(list) : rank(i) = k]]

\* String.prototype.localeCompare under the default collation: white space
\* and punctuation sort before digits, digits before letters, and letters
\* compare without regard to case first (lower case before upper case on a
\* tie); a character outside this list sorts after all of them
Collation == << " ", "\t", "\n", "-", "(", ")", "|" >> \o DigitChars \o LowerCase

CollationWeight(c) == IF \E i \in 1..Len(Collation) : Collation[i] = ToLowerChar(c) THEN CHOOSE i \in 1..Len(Collation) : Collation[i] = ToLowerChar(c) ELSE Len(Collation) + 1

\* lexicographic order of two sequences of integers
RECURSIVE LexLess(_, _)
LexLess(a, b) ==
    IF b = << >> THEN FALSE
    ELSE IF a = << >> THEN TRUE
    ELSE IF Head(a) # Head(b) THEN Head(a) < Head(b)
    ELSE LexLess(Tail(a), Tail(b))

\* a.localeCompare(b) < 0
localeCompareLess(a, b) ==
    LET primary(s) == [i \in 1..Len(s) |-> CollationWeight(s[i])]
        tertiary(s) == [i \in 1..Len(s) |-> IF ToLowerChar(s[i]) = s[i] THEN 0 ELSE 1]
    IN  IF primary(a) # primary(b) THEN LexLess(primary(a), primary(b)) ELSE LexLess(tertiary(a), tertiary(b))

\* nodes.filter((n) => n.type === type)
FilterType(nodes, type) == SelectSeq(nodes, LAMBDA n : n.type = type)

NodePosition(x, y) == [x |-> x, y |-> y]

\* list.forEach((node, i) => positions.set(node.id, pos[i])), from index i on
RECURSIVE SetAll(_, _, _, _)
SetAll(positions, list, pos, i) == IF i > Len(list) THEN positions ELSE SetAll(MapSet(positions, list[i].id, pos[i]), list, pos, i + 1)

TierTypes == << "input", "policy", "sector", "enterprise" >>

\* layout effect of part_001 (lines 211-292): rows on a narrow window,
\* columns otherwise; k is the tier (1 input .. 4 enterprise), i the 1-based
\* index of the node among the N nodes of its tier
LayoutMemo(nodes, dimensions, isMobile) ==
    LET width == dimensions.width
        height == dimensions.height
        padding == IF isMobile THEN 40 ELSE 80
        rowHeight == QDiv(QAdd(height, QInt(-(padding * 2))), 4)
        colWidth == QDiv(QAdd(width, QInt(-(padding * 2))), 4)
        band(unit, k) == QAdd(QInt(padding), QMul(unit, Q(2 * k - 1, 2)))
        spread(extent, N, i) == QMul(QDiv(extent, N + 1), QInt(i))
        Pos(k, N, i) == IF isMobile
                        THEN NodePosition(IF k = 1 THEN QDiv(width, 2) ELSE spread(width, N, i), band(rowHeight, k))
                        ELSE NodePosition(band(colWidth, k), IF k = 1 THEN QDiv(height, 2) ELSE spread(height, N, i))
        Tier(positions, k) == LET list == FilterType(nodes, TierTypes[k])
                              IN  SetAll(positions, list, [i \in 1..Len(list) |-> Pos(k, Len(list), i)], 1)
    IN  Tier(Tier(Tier(Tier(<< >>, 1), 2), 3), 4)

\* window.innerWidth < 768
CheckMobile(innerWidth) == innerWidth < 768

\* layout effect of relationship-graph.tsx:506-545: fixed row pitch, columns
\* centred in a canvas as high as the longest column needs
LayoutPerChain(nodes, innerWidth) ==
    LET verticalGap == 80
        nodeHeight == 100
        columns == [k \in 1..4 |-> FilterType(nodes, TierTypes[k])]
        maxNodesInColumn == CHOOSE m \in { Len(columns[k]) : k \in 1..4 } : \A k \in 1..4 : Len(columns[k]) <= m
        span == maxNodesInColumn * (nodeHeight + verticalGap) + 200
        calculatedHeight == IF span > 600 THEN span ELSE 600
        columnWidth == IF CheckMobile(innerWidth) THEN 200 ELSE 300
        totalWidth == 4 * columnWidth + 400
        totalHeight(N) == N * nodeHeight + (N - 1) * verticalGap
        startY(N) == Q(calculatedHeight - totalHeight(N), 2)
        Pos(k, N, i) == NodePosition(Q(k * totalWidth, 5), QAdd(startY(N), QInt((i - 1) * (nodeHeight + verticalGap))))
        Column(positions, k) == SetAll(positions, columns[k], [i \in 1..Len(columns[k]) |-> Pos(k, Len(columns[k]), i)], 1)
    IN  [positions |-> Column(Column(Column(Column(<< >>, 1), 2), 3), 4),
         dimensions |-> [width |-> QInt(totalWidth), height |-> QInt(calculatedHeight)]]

\* x and y a node of the merged builder is created with
\* (relationship-graph.tsx:61-68, 80-87, 106-113, 128-135)
MergedStart(node) ==
    IF node.type = "input" THEN NodePosition(QInt(0), Q(1, 2))
    ELSE IF node.type = "policy" THEN NodePosition(Q(25, 100), QInt(0))
    ELSE IF node.type = "sector" THEN NodePosition(Q(55, 100), QInt(0))
    ELSE NodePosition(Q(85, 100), QInt(0))

SetY(positions, id, y) == MapSet(positions, id, [MapGet(positions, id) EXCEPT !.y = y])

\* list.forEach((node, i) => { node.y = (i + 1) / (list.length + 1) })
RECURSIVE Distribute(_, _, _)
Distribute(positions, list, i) == IF i > Len(list) THEN positions ELSE Distribute(SetY(positions, list[i].id, Q(i, Len(list) + 1)), list, i + 1)

\* barycenter pass (lines 166-176 and 185-195): a node with at least one
\* parent among the links takes the mean y of its parents
RECURSIVE Barycenter(_, _, _, _, _)
Barycenter(positions, list, nodeList, linkList, i) ==
    IF i > Len(list) THEN positions
    ELSE LET incoming == SelectSeq(linkList, LAMBDA l : l.target = list[i].id /\ FindById(nodeList, l.source) # 0)
             parentY == [p \in 1..Len(incoming) |-> MapGet(positions, incoming[p].source).y]
             avgY == LET sum == QSum(parentY) IN Q(sum.n, sum.d * Len(incoming))
         IN  Barycenter(IF Len(incoming) > 0 THEN SetY(positions, list[i].id, avgY) ELSE positions, list, nodeList, linkList, i + 1)

\* layout algorithm of the merged builder (relationship-graph.tsx:149-198);
\* the result maps every node id to the fractions x and y of the container
MergedLayout(nodeList, linkList) ==
    LET start == SetAll(<< >>, nodeList, [i \in 1..Len(nodeList) |-> MergedStart(nodeList[i])], 1)
        policies == StableSort(FilterType(nodeList, "policy"), LAMBDA a, b : localeCompareLess(a.label, b.label))
        p1 == Distribute(start, policies, 1)
        p2 == Barycenter(p1, FilterType(nodeList, "sector"), nodeList, linkList, 1)
        sectors == StableSort(FilterType(nodeList, "sector"), LAMBDA a, b : QLess(MapGet(p2, a.id).y, MapGet(p2, b.id).y))
        p3 == Distribute(p2, sectors, 1)
        p4 == Barycenter(p3, FilterType(nodeList, "company"), nodeList, linkList, 1)
        companies == StableSort(FilterType(nodeList, "company"), LAMBDA a, b : QLess(MapGet(p4, a.id).y, MapGet(p4, b.id).y))
    IN  Distribute(p4, companies, 1)

\* str.startsWith(prefix)
startsWith(str, prefix) == Len(str) >= Len(prefix) /\ SubSeq(str, 1, Len(prefix)) = prefix

\* the <line> elements the per-chain component draws
\* (relationship-graph.tsx:616-707): every input to every policy, policy-i to
\* sector-i, sector-i to every enterprise-i-*, for nodes that have a position
DrawnLines(nodes, positions) ==
    LET Placed(list) == SelectSeq(list, LAMBDA n : MapHas(positions, n.id))
        Line(source, target) == Edge(S_edgeDash \o source.id \o S_Dash \o target.id, source.id, target.id, Undefined, NoArray)
        inputs == Placed(FilterType(nodes, "input"))
        policies == Placed(FilterType(nodes, "policy"))
        sectors == Placed(FilterType(nodes, "sector"))
        enterprises == Placed(FilterType(nodes, "enterprise"))
        SectorOf(policyNode) == FindById(nodes, S_sectorDash \o splitSecond(policyNode.id, "-"))
        CompaniesOf(sectorNode) == SelectSeq(enterprises, LAMBDA n : startsWith(n.id, S_enterpriseDash \o splitSecond(sectorNode.id, "-") \o S_Dash))
        RECURSIVE InputLines(_), PolicyLines(_), SectorLines(_)
        InputLines(i) == IF i > Len(inputs) THEN << >> ELSE [p \in 1..Len(policies) |-> Line(inputs[i], policies[p])] \o InputLines(i + 1)
        PolicyLines(p) == IF p > Len(policies) THEN << >>
                          ELSE (IF SectorOf(policies[p]) # 0 /\ MapHas(positions, nodes[SectorOf(policies[p])].id) THEN << Line(policies[p], nodes[SectorOf(policies[p])]) >> ELSE << >>) \o PolicyLines(p + 1)
        SectorLines(k) == IF k > Len(sectors) THEN << >>
                          ELSE [e \in 1..Len(CompaniesOf(sectors[k])) |-> Line(sectors[k], CompaniesOf(sectors[k])[e])] \o SectorLines(k + 1)
    IN  InputLines(1) \o PolicyLines(1) \o SectorLines(1)

(***************************************************************************)
(* State.                                                                  *)
(***************************************************************************)
VARIABLES
    data,            \* RelationshipGraph / transformToGraphData: the report handed to the builder
    builder,         \* which builder rendered the report, "none" before the first build
    builds,          \* number of builds made from the report
    graph,           \* { nodes, edges } of the first build
    graph2,          \* { nodes, edges } of the second build
    rng,             \* state of the Math.random() generator, -1 before it is seeded
    selectedNode,    \* useState<string | null>(null)
    url,             \* window.location.search: the query and q parameters
    query,           \* useState<string>("")
    loading,         \* useState(true)
    error,           \* useState<string | null>(null)
    apiResponse,     \* useState<AnalysisReport | null>(null)
    effectQuery,     \* value of query seen by the last run of the [query] effect
    requests,        \* every request sent to /api/generate, with the state of its response
    clicks,          \* number of node clicks handled
    clicked,         \* id of the node of the last click
    win,             \* window.innerWidth, window.innerHeight and the container's clientWidth
    isMobile,        \* useState(false)
    dimensions,      \* useState({ width: 1000, height: 600 })
    nodePositions,   \* useState<Map<string, NodePosition>>(new Map()); x and y of the merged builder's nodes
    effectDeps,      \* dependencies each effect last ran with
    resizes,         \* number of resize events handled
    clip             \* the last call of getIntersectionPoint: its arguments and its result

vars == << data, builder, builds, graph, graph2, rng, selectedNode, clicks, clicked, url, query, loading, error, apiResponse, effectQuery, requests, win, isMobile, dimensions, nodePositions, effectDeps, resizes, clip >>

builderVars == << data, builder, builds, graph, graph2, rng >>

selectionVars == << selectedNode, clicks, clicked >>

controllerVars == << url, query, loading, error, apiResponse, effectQuery, requests >>

layoutVars == << win, isMobile, dimensions, nodePositions, effectDeps, resizes, clip >>

(***************************************************************************)
(* Reports fed to the builders.                                            *)
(***************************************************************************)
Ev1 == Evidence(S_t1, S_u1)

Ev2 == Evidence(S_t2, S_u2)

\* chains that differ in politician, policy and sector
BaseChains == { InfluenceChain(politician, policy, sector, Arr(<< S_C1, S_C2 >>), S_desc1, Arr(<< Ev1 >>)) : politician \in {S_A, S_B}, policy \in {S_P1, S_NoneDirectlyLinked}, sector \in {S_S1, S_S2} }

\* chains that differ in companies, impact description and evidence
VariedChains == { InfluenceChain(S_A, S_P1, S_S1, Arr(companies), impact, Arr(evidence)) : companies \in {<< S_C1 >>, << S_AcmeCode >>, << S_Acme >>}, impact \in {S_desc1, S_desc2}, evidence \in {<< Ev1 >>, << Ev2 >>} }

\* partial records: a chain object whose fields are all absent, and a chain
\* whose companies array holds an absent entry
PartialChains == { [NullChain EXCEPT !.isNull = FALSE], InfluenceChain(S_A, S_P1, S_S1, Arr(<< S_C1, Undefined >>), S_desc1, Arr(<< Ev1 >>)) }

Chains == BaseChains \cup VariedChains \cup PartialChains \cup {NullChain}

ChainLists == UNION { [1..n -> Chains] : n \in 0..MaxChains }

Reports == {NullReport, ReportWithoutChains, ReportWithNonArrayChains} \cup { Report(chains) : chains \in ChainLists }

\* the two-chain report of the spec's merging scenario
ScenarioReport == Report(<< InfluenceChain(S_A, S_P1, S_S1, Arr(<< S_C1, S_C2 >>), S_desc1, Arr(<< Ev1 >>)), InfluenceChain(S_A, S_P1, S_S1, Arr(<< S_C1 >>), S_desc1, Arr(<< Ev1 >>)) >>)

NotBuilt == Graph(<< >>, << >>)

\* apiResponse before any report arrived (null)
NoReport == [request |-> 0, query |-> Undefined]

UrlParams == {Undefined, EmptyString, S_q1, S_q2}

Urls == [query : UrlParams, q : UrlParams]

\* state of both components after their first render, before any effect
InitBuilder == /\ builder = "none"
               /\ builds = 0
               /\ graph = NotBuilt
               /\ graph2 = NotBuilt
               /\ rng = -1
               /\ selectedNode = Undefined
               /\ clicks = 0
               /\ clicked = Undefined

\* a wide window
DesktopWindow == [innerWidth |-> 1280, innerHeight |-> 1000, clientWidth |-> 1200]

NoDeps == [mounted |-> FALSE, layout |-> [ran |-> FALSE, nodes |-> 0, dimensions |-> [width |-> QInt(0), height |-> QInt(0)], isMobile |-> FALSE], dimensions |-> [ran |-> FALSE, isMobile |-> FALSE, height |-> QInt(0)]]

\* no call of getIntersectionPoint yet
NoClip == [called |-> FALSE, source |-> NodePosition(QInt(0), QInt(0)), target |-> NodePosition(QInt(0), QInt(0)), targetType |-> "input", isMobile |-> FALSE, result |-> NodePosition(QInt(0), QInt(0))]

InitLayout == /\ isMobile = FALSE
              /\ dimensions = [width |-> QInt(1000), height |-> QInt(600)]
              /\ nodePositions = << >>
              /\ effectDeps = NoDeps
              /\ resizes = 0
              /\ clip = NoClip

InitController == /\ query = EmptyString
                  /\ loading = TRUE
                  /\ error = Undefined
                  /\ apiResponse = NoReport
                  /\ effectQuery = Undefined
                  /\ requests = << >>

Init == /\ data \in Reports
        /\ url = [query |-> Undefined, q |-> Undefined]
        /\ win = DesktopWindow
        /\ InitBuilder
        /\ InitController
        /\ InitLayout

(***************************************************************************)
(* Builds.  React may evaluate the useMemo body again for the same report; *)
(* the second result is kept in graph2.                                    *)
(***************************************************************************)
CanBuild(name) == \/ builds = 0
                  \/ builds = 1 /\ builder = name

Built(name, result) == /\ builder' = name
                       /\ builds' = builds + 1
                       /\ graph' = IF builds = 0 THEN result ELSE graph
                       /\ graph2' = IF builds = 0 THEN graph2 ELSE result

\* part_001, lines 40-200
RenderMemo == /\ CanBuild("memo")
              /\ Built("memo", BuildMemo(data))
              /\ UNCHANGED << data, rng, selectionVars, controllerVars, layoutVars >>

\* relationship-graph.tsx, lines 385-495
RenderPerChain == /\ CanBuild("perchain")
                  /\ Built("perchain", BuildPerChain(data))
                  /\ UNCHANGED << data, rng, selectionVars, controllerVars, layoutVars >>

\* relationship-graph.tsx, lines 56-201; the x and y the layout part writes
\* into the nodes are kept in nodePositions
RenderMerged == /\ CanBuild("merged")
                /\ Built("merged", BuildMerged(data).graph)
                /\ data' = BuildMerged(data).data
                /\ nodePositions' = MergedLayout(BuildMerged(data).graph.nodes, BuildMerged(data).graph.edges)
                /\ UNCHANGED << rng, selectionVars, controllerVars, win, isMobile, dimensions, effectDeps, resizes, clip >>

\* part_000, lines 73 and 86-202; the first Math.random() call seeds the generator
Transform == /\ CanBuild("transform")
             /\ \E seed \in 0..(RngModulus - 1) :
                    /\ rng # -1 => seed = rng
                    /\ Built("transform", transformToGraphData(data, seed).graph)
                    /\ rng' = transformToGraphData(data, seed).rng
             /\ UNCHANGED << data, selectionVars, controllerVars, layoutVars >>

NextBuild == RenderMemo \/ RenderPerChain \/ RenderMerged \/ Transform

Spec == Init /\ [][NextBuild]_vars

(***************************************************************************)
(* Node selection of RelationshipGraph (part_001:358-369,                  *)
(* relationship-graph.tsx:719-730).                                        *)
(***************************************************************************)
\* a click handler that selects without toggling
onClickNoToggle(nodeId, selected) == nodeId

\* onClick={() => setSelectedNode(node.id === selectedNode ? null : node.id)}
onClick(nodeId, selected) == IF nodeId = selected THEN Undefined ELSE nodeId

\* isSelected={selectedNode === node.id}
isSelected(node) == selectedNode = node.id

\* a click on the i-th drawn node of the component that holds selectedNode
Click(i) == /\ builds >= 1
            /\ builder \in {"memo", "perchain"}
            /\ i \in 1..Len(graph.nodes)
            /\ clicks < MaxClicks
            /\ selectedNode' = onClick(graph.nodes[i].id, selectedNode)
            /\ clicked' = graph.nodes[i].id
            /\ clicks' = clicks + 1
            /\ UNCHANGED << builderVars, controllerVars, layoutVars >>

ClickNode == \E i \in 1..Len(graph.nodes) : Click(i)

NextSelect == RenderMemo \/ RenderPerChain \/ ClickNode

\* reports with a single chain
SingleChainReports == { Report(<< chain >>) : chain \in Chains }

InitSelect == /\ data \in SingleChainReports \cup {ScenarioReport}
              /\ url = [query |-> Undefined, q |-> Undefined]
              /\ win = DesktopWindow
              /\ InitBuilder
              /\ InitController
              /\ InitLayout

SpecSelect == InitSelect /\ [][NextSelect]_vars

(***************************************************************************)
(* AnalysisContent of analysis-content.tsx: the report fetch controller.   *)
(***************************************************************************)
\* params.get("query") || params.get("q") || ""
UrlQuery(u) == OrElse(u.query, OrElse(u.q, EmptyString))

\* the address changes while the component stays mounted
Navigate(u) == /\ u # url
               /\ url' = u
               /\ UNCHANGED << builderVars, selectionVars, layoutVars, query, loading, error, apiResponse, effectQuery, requests >>

\* effect of lines 19-25.  On mount the [query] effect runs in the same
\* flush with the query of the first render, "", and returns at once; a later
\* run of the effect (React re-runs mount effects with the state preserved)
\* reads the address again.  No run starts while the [query] effect of the
\* previous commit is still due.
QueryEffect == /\ effectQuery = Undefined \/ effectQuery = query
               /\ query' = UrlQuery(url)
               /\ effectQuery' = IF effectQuery = Undefined THEN EmptyString ELSE effectQuery
               /\ UNCHANGED << builderVars, selectionVars, layoutVars, url, loading, error, apiResponse, requests >>

Pending == { i \in 1..Len(requests) : requests[i].status = "pending" }

\* fetchData without the early return of line 29
fetchDataUnguarded(q) ==
    /\ Len(requests) < MaxRequests
    /\ loading' = TRUE
    /\ requests' = Append(requests, [query |-> q, status |-> "pending"])

\* fetchData up to the await of fetch (lines 28-41): returns when the query
\* is empty, else sets loading and sends the request
fetchData(q) ==
    IF ~Truthy(q) THEN UNCHANGED << loading, requests >>
    ELSE /\ Len(requests) < MaxRequests
         /\ loading' = TRUE
         /\ requests' = Append(requests, [query |-> q, status |-> "pending"])

\* effect of lines 27-62, run after a commit that changed query
FetchEffect == /\ effectQuery # Undefined
               /\ effectQuery # query
               /\ effectQuery' = query
               /\ fetchData(query)
               /\ UNCHANGED << builderVars, selectionVars, layoutVars, url, query, error, apiResponse >>

\* finally block (lines 56-58) and the bookkeeping of the answered request
Finally(i, status) == /\ loading' = FALSE
                      /\ requests' = [requests EXCEPT ![i].status = status]

\* a catch block that logs the failure and sets no message
CatchSilent(i) == /\ Finally(i, "failed")
                  /\ UNCHANGED << builderVars, selectionVars, layoutVars, url, query, error, apiResponse, effectQuery >>

\* catch block (lines 53-55)
Catch(i) == /\ error' = S_FetchFailed
            /\ Finally(i, "failed")
            /\ UNCHANGED << builderVars, selectionVars, layoutVars, url, query, apiResponse, effectQuery >>

\* lines 45-52: a 2xx response whose body parses is stored as the report
ResponseOk(i) == /\ i \in Pending
                 /\ apiResponse' = [request |-> i, query |-> requests[i].query]
                 /\ Finally(i, "ok")
                 /\ UNCHANGED << builderVars, selectionVars, layoutVars, url, query, error, effectQuery >>

\* fetch() rejects (line 35)
NetworkError(i) == i \in Pending /\ Catch(i)

\* !response.ok (lines 45-47)
NonOkStatus(i) == i \in Pending /\ Catch(i)

\* response.json() rejects (line 49)
UnparsableBody(i) == i \in Pending /\ Catch(i)

\* which branch of the render the page takes (lines 64-101)
View ==
    IF ~Truthy(query) THEN "prompt"
    ELSE IF loading THEN "loading"
    ELSE IF error # Undefined \/ apiResponse = NoReport THEN "error"
    ELSE "result"

NextFetch ==
    \/ \E u \in Urls : Navigate(u)
    \/ QueryEffect
    \/ FetchEffect
    \/ \E i \in 1..Len(requests) : ResponseOk(i)
    \/ \E i \in 1..Len(requests) : NetworkError(i)
    \/ \E i \in 1..Len(requests) : NonOkStatus(i)
    \/ \E i \in 1..Len(requests) : UnparsableBody(i)

InitFetch == /\ data = NullReport
             /\ url \in Urls
             /\ win = DesktopWindow
             /\ InitBuilder
             /\ InitController
             /\ InitLayout

SpecFetch == InitFetch /\ [][NextFetch]_vars

(***************************************************************************)
(* Layout of RelationshipGraph: the effects and the resize listeners of    *)
(* part_001:202-309 and relationship-graph.tsx:496-562.  An effect runs    *)
(* after a render whose dependencies differ from those of its last run.    *)
(***************************************************************************)
\* the nodes of the latest useMemo result
Nodes == IF builds = 2 THEN graph2.nodes ELSE graph.nodes

\* svgRef.current: the svg element exists unless the "no data" branch rendered
SvgMounted == Len(Nodes) > 0

\* windows on both sides of the 768 pixel limit
Windows == { [innerWidth |-> 767, innerHeight |-> 1200, clientWidth |-> 735],
             [innerWidth |-> 768, innerHeight |-> 700, clientWidth |-> 736],
             DesktopWindow }

\* checkMobile (part_001:203-205, relationship-graph.tsx:497-499)
checkMobile(w) == CheckMobile(w.innerWidth)

\* updateDimensions of part_001:295-304 with the isMobile of its closure
updateDimensions(w, mobile, prev) ==
    IF SvgMounted THEN [width |-> QInt(w.clientWidth), height |-> QMax(QInt(IF mobile THEN 800 ELSE 600), Q(7 * w.innerHeight, 10))] ELSE prev

\* updateDimensions of relationship-graph.tsx:548-557: the width only
updateWidth(w, prev) == IF SvgMounted THEN [width |-> QInt(w.clientWidth), height |-> prev.height] ELSE prev

\* effect with dependencies [] (part_001:202-209, relationship-graph.tsx:496-503)
CheckMobileEffect ==
    /\ builds >= 1
    /\ builder \in {"memo", "perchain"}
    /\ ~effectDeps.mounted
    /\ isMobile' = checkMobile(win)
    /\ effectDeps' = [effectDeps EXCEPT !.mounted = TRUE]
    /\ UNCHANGED << builderVars, selectionVars, controllerVars, win, dimensions, nodePositions, resizes, clip >>

LayoutDeps == [ran |-> TRUE, nodes |-> builds, dimensions |-> dimensions, isMobile |-> isMobile]

\* effect with dependencies [nodes, dimensions, isMobile] (part_001:211-292)
LayoutEffect ==
    /\ builds >= 1
    /\ builder = "memo"
    /\ effectDeps.layout # LayoutDeps
    /\ nodePositions' = LayoutMemo(Nodes, dimensions, isMobile)
    /\ effectDeps' = [effectDeps EXCEPT !.layout = LayoutDeps]
    /\ UNCHANGED << builderVars, selectionVars, controllerVars, win, isMobile, dimensions, resizes, clip >>

\* effect with dependencies [isMobile] (part_001:294-309)
DimensionsEffect ==
    /\ builds >= 1
    /\ builder = "memo"
    /\ effectDeps.dimensions # [ran |-> TRUE, isMobile |-> isMobile, height |-> QInt(0)]
    /\ dimensions' = updateDimensions(win, isMobile, dimensions)
    /\ effectDeps' = [effectDeps EXCEPT !.dimensions = [ran |-> TRUE, isMobile |-> isMobile, height |-> QInt(0)]]
    /\ UNCHANGED << builderVars, selectionVars, controllerVars, win, isMobile, nodePositions, resizes, clip >>

\* effect with dependencies [nodes] (relationship-graph.tsx:506-545)
LayoutEffectPerChain ==
    /\ builds >= 1
    /\ builder = "perchain"
    /\ effectDeps.layout.nodes # builds
    /\ nodePositions' = IF Len(Nodes) > 0 THEN LayoutPerChain(Nodes, win.innerWidth).positions ELSE nodePositions
    /\ dimensions' = IF Len(Nodes) > 0 THEN LayoutPerChain(Nodes, win.innerWidth).dimensions ELSE dimensions
    /\ effectDeps' = [effectDeps EXCEPT !.layout = [ran |-> TRUE, nodes |-> builds, dimensions |-> NoDeps.layout.dimensions, isMobile |-> FALSE]]
    /\ UNCHANGED << builderVars, selectionVars, controllerVars, win, isMobile, resizes, clip >>

\* effect with dependencies [dimensions.height] (relationship-graph.tsx:547-562)
DimensionsEffectPerChain ==
    /\ builds >= 1
    /\ builder = "perchain"
    /\ effectDeps.dimensions # [ran |-> TRUE, isMobile |-> FALSE, height |-> dimensions.height]
    /\ dimensions' = updateWidth(win, dimensions)
    /\ effectDeps' = [effectDeps EXCEPT !.dimensions = [ran |-> TRUE, isMobile |-> FALSE, height |-> dimensions.height]]
    /\ UNCHANGED << builderVars, selectionVars, controllerVars, win, isMobile, nodePositions, resizes, clip >>

\* a resize event: the window changes and the registered listeners run, first
\* checkMobile, then updateDimensions with the isMobile its effect closed over
Resize(w) ==
    /\ builds >= 1
    /\ builder \in {"memo", "perchain"}
    /\ effectDeps.mounted /\ effectDeps.dimensions.ran
    /\ resizes < MaxResizes
    /\ w # win
    /\ win' = w
    /\ isMobile' = checkMobile(w)
    /\ dimensions' = IF builder = "memo" THEN updateDimensions(w, effectDeps.dimensions.isMobile, dimensions) ELSE updateWidth(w, dimensions)
    /\ resizes' = resizes + 1
    /\ UNCHANGED << builderVars, selectionVars, controllerVars, nodePositions, effectDeps, clip >>

ResizeWindow == \E w \in Windows : Resize(w)

NextLayout == RenderMemo \/ RenderPerChain \/ RenderMerged \/ CheckMobileEffect \/ LayoutEffect \/ DimensionsEffect \/ LayoutEffectPerChain \/ DimensionsEffectPerChain \/ ResizeWindow

\* chains that lay out differently: two policies, two sectors, one or two
\* companies, and a null entry
LayoutChains == { InfluenceChain(S_A, S_P1, S_S1, Arr(<< S_C1, S_C2 >>), S_desc1, Arr(<< Ev1 >>)),
                  InfluenceChain(S_A, S_NoneDirectlyLinked, S_S2, Arr(<< S_C1, S_C2 >>), S_desc1, Arr(<< Ev1 >>)),
                  InfluenceChain(S_A, S_P1, S_S1, Arr(<< S_Acme >>), S_desc1, Arr(<< Ev1 >>)),
                  NullChain }

LayoutReports == {NullReport} \cup { Report(chains) : chains \in UNION { [1..n -> LayoutChains] : n \in 0..MaxChains } }

InitLayoutSpec == /\ data \in LayoutReports
                  /\ url = [query |-> Undefined, q |-> Undefined]
                  /\ win \in Windows
                  /\ InitBuilder
                  /\ InitController
                  /\ InitLayout

SpecLayout == InitLayoutSpec /\ [][NextLayout]_vars

(***************************************************************************)
(* Edge geometry: getIntersectionPoint (part_001:326-328,                  *)
(* relationship-graph.tsx:594-596) applied to arbitrary positions.         *)
(***************************************************************************)
\* getIntersectionPoint: the body is "return target"
getIntersectionPoint(source, target, targetType, mobile) == target

\* width and height of the rectangle NodeShape draws centred on the node
\* position (part_001:408-419, relationship-graph.tsx:769-780)
NodeSize(type, mobile) ==
    LET scale == IF mobile THEN Q(8, 10) ELSE QInt(1)
    IN  IF type = "input" THEN [width |-> QMul(QInt(260), scale), height |-> QMul(QInt(130), scale)]
        ELSE IF type = "enterprise" THEN [width |-> QMul(QInt(221), scale), height |-> QMul(QInt(110), scale)]
        ELSE [width |-> QMul(QInt(234), scale), height |-> QMul(QInt(117), scale)]

\* node positions of a coarse grid
Coordinates == {0, 150, 400}

GridPositions == { NodePosition(QInt(x), QInt(y)) : x \in Coordinates, y \in Coordinates }

\* one call of getIntersectionPoint
GetIntersectionPoint ==
    \E source \in GridPositions, target \in GridPositions, targetType \in { TierTypes[k] : k \in 1..4 }, mobile \in BOOLEAN :
        /\ clip' = [called |-> TRUE, source |-> source, target |-> target, targetType |-> targetType, isMobile |-> mobile,
                    result |-> getIntersectionPoint(source, target, targetType, mobile)]
        /\ UNCHANGED << builderVars, selectionVars, controllerVars, win, isMobile, dimensions, nodePositions, effectDeps, resizes >>

NextClip == GetIntersectionPoint

InitClip == /\ data = NullReport
            /\ url = [query |-> Undefined, q |-> Undefined]
            /\ win = DesktopWindow
            /\ InitBuilder
            /\ InitController
            /\ InitLayout

SpecClip == InitClip /\ [][NextClip]_vars

(***************************************************************************)
(* Properties of the graph builders.                                       *)
(***************************************************************************)
NodesOfType(g, types) == { i \in 1..Len(g.nodes) : g.nodes[i].type \in types }

EnterpriseTypes == {"enterprise", "company"}

\* a build has produced a node set (it ran and did not end in a TypeError)
Produced == builds >= 1 /\ ~graph.threw

\* what the component that ran the builder shows for graph g: part_001:330 and
\* relationship-graph.tsx:598 show the "no data" message for an empty node
\* list, relationship-graph.tsx:219 always draws the graph, part_000:230-259
\* shows the error text after a throw and hands the graph over otherwise
RenderSurface(name, g) ==
    IF name \in {"memo", "perchain"} THEN (IF Len(g.nodes) = 0 THEN "nodata" ELSE "graph")
    ELSE IF name = "merged" THEN (IF g.threw THEN "crash" ELSE "graph")
    ELSE (IF g.threw THEN "error" ELSE "graph")

\* the accumulated impact text of a sector node, under either field name
SectorText(node) == IF node.impact_description # Undefined THEN node.impact_description ELSE node.description

\* C1: for every report with a non-empty influence_chains sequence the node
\* set produced by the builder holds exactly one node of type input, also when
\* the chains name different politicians.
C1_ExactlyOneInputNode == (Produced /\ ~IsEmptyReport(data)) => Cardinality(NodesOfType(graph, {"input"})) = 1

\* C2: no two distinct edges of the produced edge set have the same
\* (source, target) pair, input->policy and input->sector edges included.
C2_NoDuplicateEdgePair == Produced => \A i, j \in 1..Len(graph.edges) : i # j => << graph.edges[i].source, graph.edges[i].target >> # << graph.edges[j].source, graph.edges[j].target >>

\* C3: for a missing report, a report without influence_chains, with a
\* non-array influence_chains or with an empty array, the builder returns an
\* empty node set and an empty edge set without throwing and the component
\* shows the "no data" message.
C3_EmptyReportShowsNoData == (builds >= 1 /\ IsEmptyReport(data)) => (~graph.threw /\ graph.nodes = << >> /\ graph.edges = << >> /\ RenderSurface(builder, graph) = "nodata")

\* C4: building twice from the same report yields identical node and edge
\* sets, ids, labels, data records and stock snapshots included.
C4_RebuildIsIdentical == builds = 2 => graph2 = graph

\* C5: the two-chain scenario report yields exactly 1 input, 1 policy, 1
\* sector and 2 enterprise nodes (C1 and C2), the sector's accumulated
\* description is exactly "desc1" and the policy's evidence list has one entry.
C5_ScenarioCounts ==
    (Produced /\ data = ScenarioReport) =>
        /\ Cardinality(NodesOfType(graph, {"input"})) = 1
        /\ Cardinality(NodesOfType(graph, {"policy"})) = 1
        /\ Cardinality(NodesOfType(graph, {"sector"})) = 1
        /\ Cardinality(NodesOfType(graph, EnterpriseTypes)) = 2
        /\ { graph.nodes[i].label : i \in NodesOfType(graph, EnterpriseTypes) } = {S_C1, S_C2}
        /\ \A i \in NodesOfType(graph, {"sector"}) : SectorText(graph.nodes[i]) = S_desc1
        /\ \A i \in NodesOfType(graph, {"policy"}) : Len(graph.nodes[i].evidence.items) = 1

\* position of the "(" that opens a parenthesized run of digits ending the
\* string, 0 when the string does not end that way
TrailingCodeStart(s) ==
    LET opens == { p \in 1..(Len(s) - 2) : s[p] = "(" /\ \A k \in (p + 1)..(Len(s) - 1) : IsDigit(s[k]) }
    IN  IF Len(s) >= 3 /\ s[Len(s)] = ")" /\ opens # {} THEN CHOOSE p \in opens : TRUE ELSE 0

\* C6: the stock symbol of an enterprise node is the digit run of a trailing
\* parenthesized code ("Acme (005930)" gives "005930") and the marker "N/A"
\* when the company string holds no parenthesized code ("Acme").
C6_SymbolFromTrailingCode ==
    Produced => \A i \in NodesOfType(graph, EnterpriseTypes) :
        LET node == graph.nodes[i]
            start == TrailingCodeStart(node.label)
        IN  node.stockData.present =>
                /\ start # 0 => node.stockData.symbol = SubSeq(node.label, start + 1, Len(node.label) - 1)
                /\ ~includes(node.label, << "(" >>) => node.stockData.symbol = S_NA

(***************************************************************************)
(* Properties of the fetch controller.                                     *)
(***************************************************************************)
Failed == { i \in 1..Len(requests) : requests[i].status = "failed" }

\* C7: a request that fails at network level, with a non-2xx status or with
\* an unparsable body leaves the controller with the user-facing message and
\* loading false; no report is ever stored from such a response, and once
\* set the error stays: the result view is not shown again.
C7_FailureEndsInError ==
    /\ [](Failed # {} => error = S_FetchFailed)
    /\ [](apiResponse # NoReport => requests[apiResponse.request].status = "ok")
    /\ [](Failed # {} => View # "result")
    /\ [][\A i \in 1..Len(requests) : (requests[i].status = "pending" /\ requests'[i].status = "failed") => (loading' = FALSE /\ error' = S_FetchFailed /\ apiResponse' = apiResponse)]_vars

\* a request has failed and the page shows the error text
C7_Witness == Failed # {} /\ View = "error" /\ ~loading

UrlHasNoQuery(u) == ~Truthy(u.query) /\ ~Truthy(u.q)

\* C8: when the address holds neither a query nor a q parameter (or both are
\* empty) the query read from it is empty, the page shows the prompt and not
\* the loading, error or result view, and no request is sent for an empty
\* query.
C8_NoQueryShowsPrompt ==
    /\ [](~Truthy(query) => View = "prompt")
    /\ [](\A i \in 1..Len(requests) : Truthy(requests[i].query))
    /\ [][(UrlHasNoQuery(url) /\ url' = url /\ effectQuery' # Undefined /\ (effectQuery = Undefined \/ query' # query)) => ~Truthy(query')]_vars
    /\ [][~Truthy(query) => Len(requests') = Len(requests)]_vars

\* the effects have run for an address without parameters: prompt, no request
C8_Witness == UrlHasNoQuery(url) /\ effectQuery = EmptyString /\ ~Truthy(query) /\ View = "prompt" /\ requests = << >>

SelectedNodes == { i \in 1..Len(graph.nodes) : isSelected(graph.nodes[i]) }

\* C10: after any sequence of clicks at most one node is selected; a click on
\* a node that is not selected makes it the only selected node, a click on the
\* selected node clears the selection.
C10_SingleSelection ==
    /\ [](Cardinality(SelectedNodes) <= 1)
    /\ [][clicks' = clicks + 1 => (IF clicked' = selectedNode THEN selectedNode' = Undefined ELSE selectedNode' = clicked')]_vars
    /\ [](clicks > 0 => (selectedNode = Undefined \/ (selectedNode = clicked /\ Cardinality(SelectedNodes) = 1)))

\* a second node was clicked while another one was selected
C10_Witness == clicks >= 2 /\ selectedNode # Undefined /\ Cardinality(SelectedNodes) = 1 /\ Len(graph.nodes) >= 2

(***************************************************************************)
(* Further properties of the graph builders.                               *)
(***************************************************************************)
\* a chain object with every field present and every company entry a string
WellFormed(chain) ==
    /\ ~chain.isNull
    /\ chain.politician # Undefined /\ chain.policy # Undefined /\ chain.industry_or_sector # Undefined /\ chain.impact_description # Undefined
    /\ chain.companies.isArray /\ chain.evidence.isArray
    /\ \A k \in 1..Len(chain.companies.items) : chain.companies.items[k] # Undefined

ChainsOf(report) == IF IsEmptyReport(report) THEN << >> ELSE report.influence_chains.items

HasNode(g, types, label) == \E i \in NodesOfType(g, types) : g.nodes[i].label = label

\* C12: a null chain, or a chain with a null or absent field or company
\* entry, never makes the builder throw, and every well-formed chain of the
\* report still has its sector node and the enterprise node of each of its
\* companies in the result.
C12_PartialRecordNeverThrows ==
    (builds >= 1 /\ ~IsEmptyReport(data)) =>
        /\ ~graph.threw
        /\ \A c \in 1..Len(ChainsOf(data)) :
              LET chain == ChainsOf(data)[c]
              IN  WellFormed(chain) =>
                    /\ HasNode(graph, {"sector"}, chain.industry_or_sector)
                    /\ \A k \in 1..Len(chain.companies.items) : HasNode(graph, EnterpriseTypes, chain.companies.items[k])

\* C13: a build leaves the input report unchanged: no chain's evidence list
\* gains or loses entries, also when several chains resolve to the same policy
\* node and their evidence is merged.
C13_BuildLeavesReportUnchanged == [][builds' = builds + 1 => data' = data]_vars

(***************************************************************************)
(* Properties of the layout.                                               *)
(***************************************************************************)
\* the positions on screen are those of a column layout of the current nodes
DesktopLaidOut ==
    \/ builder = "memo" /\ effectDeps.layout.ran /\ effectDeps.layout.nodes = builds /\ ~effectDeps.layout.isMobile
    \/ builder = "perchain" /\ effectDeps.layout.ran /\ effectDeps.layout.nodes = builds /\ Len(Nodes) > 0
    \/ builder = "merged" /\ builds >= 1 /\ ~graph.threw

\* the height the columns were spread over: the canvas height the layout ran
\* with; the merged builder places its nodes in fractions of the container
AvailableHeight ==
    IF builder = "memo" THEN effectDeps.layout.dimensions.height
    ELSE IF builder = "perchain" THEN dimensions.height
    ELSE QInt(1)

\* the nodes of tier k: input, policy, sector, enterprise
TierNodes(k) == SelectSeq(Nodes, LAMBDA n : IF k = 4 THEN n.type \in EnterpriseTypes ELSE n.type = TierTypes[k])

PositionOf(node) == MapGet(nodePositions, node.id)

\* C14: in the column layout every tier holding N nodes has, for each index
\* i in 0..N-1, exactly one node at y = H * (i + 1) / (N + 1), H being the
\* available height; a single node of a column is at H / 2.
C14_ColumnsEvenlySpaced ==
    DesktopLaidOut => \A k \in 1..4 :
        LET list == TierNodes(k)
            N == Len(list)
        IN  \A i \in 1..N : Cardinality({ j \in 1..N : PositionOf(list[j]).y = QMul(AvailableHeight, Q(i, N + 1)) }) = 1

QNeg(a) == [n |-> -a.n, d |-> a.d]

QAbs(a) == [n |-> Abs(a.n), d |-> a.d]

\* point p lies on the border of the rectangle of the given size centred on c
OnRectangle(p, c, size) ==
    LET dx == QAbs(QAdd(p.x, QNeg(c.x)))
        dy == QAbs(QAdd(p.y, QNeg(c.y)))
        halfWidth == QDiv(size.width, 2)
        halfHeight == QDiv(size.height, 2)
    IN  \/ dx = halfWidth /\ ~QLess(halfHeight, dy)
        \/ dy = halfHeight /\ ~QLess(halfWidth, dx)

\* C15: when source and target positions differ, the endpoint computed for
\* the target lies on the target node's rectangle, one coordinate exactly half
\* the width or half the height of the target's node type away from the
\* target center; when they coincide the target center is returned.
C15_EndpointOnTargetRectangle ==
    clip.called =>
        IF clip.source # clip.target
        THEN OnRectangle(clip.result, clip.target, NodeSize(clip.targetType, clip.isMobile))
        ELSE clip.result = clip.target

\* the strings the chains of a report mention for a tier, in report order:
\* one policy and one sector per chain object, and every company entry
RECURSIVE CompanyMentions(_)
CompanyMentions(chains) ==
    IF chains = << >> THEN << >>
    ELSE (IF Head(chains).isNull \/ ~Head(chains).companies.isArray THEN << >> ELSE Head(chains).companies.items) \o CompanyMentions(Tail(chains))

Mentions(report, tier) ==
    LET chains == SelectSeq(ChainsOf(report), LAMBDA chain : ~chain.isNull)
    IN  IF tier = "policy" THEN [c \in 1..Len(chains) |-> chains[c].policy]
        ELSE IF tier = "sector" THEN [c \in 1..Len(chains) |-> chains[c].industry_or_sector]
        ELSE CompanyMentions(chains)

PairwiseDistinct(seq) == \A i, j \in 1..Len(seq) : i # j => seq[i] # seq[j]

TypesOfTier(tier) == IF tier = "enterprise" THEN EnterpriseTypes ELSE {tier}

\* C16: the builder makes at most as many policy, sector and enterprise
\* nodes as the chains mention policies, sectors and companies, and as many
\* only when the mentioned strings of the tier are pairwise distinct.
C16_NodesAtMostMentions ==
    Produced => \A tier \in {"policy", "sector", "enterprise"} :
        LET count == Cardinality(NodesOfType(graph, TypesOfTier(tier)))
            mentions == Mentions(data, tier)
        IN  /\ count <= Len(mentions)
            /\ count = Len(mentions) => PairwiseDistinct(mentions)

\* chain c of the report (1-based) resolves to the policy node: the key each
\* builder files its policy nodes under (part_001:77-79,
\* relationship-graph.tsx:78-79 and 419, part_000:127-130)
ResolvesToPolicy(c, node) ==
    LET chain == ChainsOf(data)[c]
    IN  /\ ~chain.isNull
        /\ IF builder = "memo" THEN IsPolicyLinked(chain.policy) /\ node.label = chain.policy
           ELSE IF builder = "merged" THEN node.id = S_policyDash \o chain.policy
           ELSE IF builder = "perchain" THEN node.id = S_policyDash \o NumToStr(c - 1)
           ELSE node.id = S_policyDash \o NumToStr(c - 1) \o S_Dash \o Slug(node.label)

RECURSIVE EvidenceOf(_, _, _)
EvidenceOf(chains, c, node) ==
    IF c > Len(chains) THEN << >>
    ELSE (IF ResolvesToPolicy(c, node) /\ chains[c].evidence.isArray THEN chains[c].evidence.items ELSE << >>) \o EvidenceOf(chains, c + 1, node)

FirstWithUrl(list, u) == CHOOSE i \in 1..Len(list) : list[i].url = u /\ \A j \in 1..(i - 1) : list[j].url # u

\* C17: the evidence list of a policy node that several chains resolve to
\* holds no URL twice, holds for every URL of those chains the first entry
\* met with that URL and nothing else, and is in first-encounter order.
C17_PolicyEvidenceMerged ==
    Produced => \A n \in NodesOfType(graph, {"policy"}) :
        LET node == graph.nodes[n]
            met == EvidenceOf(ChainsOf(data), 1, node)
            list == node.evidence.items
        IN  Cardinality({ c \in 1..Len(ChainsOf(data)) : ResolvesToPolicy(c, node) }) >= 2 =>
                /\ \A i, j \in 1..Len(list) : i # j => list[i].url # list[j].url
                /\ \A e \in 1..Len(met) : \E i \in 1..Len(list) : list[i].url = met[e].url
                /\ \A i \in 1..Len(list) : \E e \in 1..Len(met) : met[e] = list[i] /\ e = FirstWithUrl(met, list[i].url)
                /\ \A i, j \in 1..Len(list) : i < j => FirstWithUrl(met, list[i].url) < FirstWithUrl(met, list[j].url)

\* chain c of the report (1-based) resolves to the sector node: the key each
\* builder files its sector nodes under (part_001:93-94, part_000:141,
\* relationship-graph.tsx:104 and 436)
ResolvesToSector(c, node) ==
    LET chain == ChainsOf(data)[c]
    IN  /\ ~chain.isNull
        /\ IF builder = "memo" THEN node.label = OrElse(chain.industry_or_sector, S_UnknownSector)
           ELSE IF builder = "merged" THEN node.id = S_sectorDash \o chain.industry_or_sector
           ELSE IF builder = "perchain" THEN node.id = S_sectorDash \o NumToStr(c - 1)
           ELSE node.id = S_sectorDash \o Slug(chain.industry_or_sector)

\* the description a sector node is to end with: the first resolving chain's
\* text, then every later one that is not yet a substring, after a blank line
RECURSIVE Accumulated(_, _, _, _, _)
Accumulated(chains, c, node, text, first) ==
    IF c > Len(chains) THEN text
    ELSE IF ~ResolvesToSector(c, node) THEN Accumulated(chains, c + 1, node, text, first)
    ELSE IF first THEN Accumulated(chains, c + 1, node, chains[c].impact_description, FALSE)
    ELSE IF includes(text, chains[c].impact_description) THEN Accumulated(chains, c + 1, node, text, FALSE)
    ELSE Accumulated(chains, c + 1, node, text \o S_BlankLine \o chains[c].impact_description, FALSE)

\* C18: the description of a sector node that several chains resolve to is
\* the first chain's impact_description followed, after a blank line each, by
\* the impact_description of every later chain that was not already a
\* substring of the text accumulated so far, whatever its length.
C18_SectorDescriptionAccumulates ==
    Produced => \A n \in NodesOfType(graph, {"sector"}) :
        LET node == graph.nodes[n]
            resolving == { c \in 1..Len(ChainsOf(data)) : ResolvesToSector(c, node) }
        IN  (Cardinality(resolving) >= 2 /\ \A c \in resolving : Truthy(ChainsOf(data)[c].impact_description)) =>
                SectorText(node) = Accumulated(ChainsOf(data), 1, node, EmptyString, TRUE)

\* chains that differ in what becomes of their policy: a named policy, the
\* sentinel, an empty policy, with shared and separate sectors and companies
EdgeChains == LayoutChains \cup { InfluenceChain(S_A, EmptyString, S_S1, Arr(<< S_C1 >>), S_desc1, Arr(<< Ev1 >>)) }

EdgeReports == {NullReport} \cup { Report(chains) : chains \in UNION { [1..n -> EdgeChains] : n \in 0..MaxChains } }

InitEdges == /\ data \in EdgeReports
             /\ url = [query |-> Undefined, q |-> Undefined]
             /\ win = DesktopWindow
             /\ InitBuilder
             /\ InitController
             /\ InitLayout

\* the four builders on the reports above
SpecEdges == InitEdges /\ [][NextBuild]_vars

\* the edges of the rendered graph: the builder's edge list, and for the
\* per-chain component, whose edge list stays empty, the lines it draws once
\* its layout effect has positioned the nodes
EdgeSet == IF builder = "perchain" THEN DrawnLines(graph.nodes, LayoutPerChain(graph.nodes, win.innerWidth).positions) ELSE graph.edges

HasEdge(source, target) == \E e \in 1..Len(EdgeSet) : EdgeSet[e].source = source.id /\ EdgeSet[e].target = target.id

\* the input node chain c hangs from (part_001:55-62, part_000:123-124,
\* relationship-graph.tsx:60-68 and 402-409)
IsInputOf(c, node) ==
    /\ node.type = "input"
    /\ builder = "transform" => node.id = S_polDash \o Slug(ChainsOf(data)[c].politician)

\* the enterprise node of entry k of the companies of chain c (part_001:111-114,
\* part_000:169, relationship-graph.tsx:127 and 466)
IsCompanyOf(c, k, node) ==
    LET company == ChainsOf(data)[c].companies.items[k]
    IN  /\ node.type \in EnterpriseTypes
        /\ IF builder = "memo" THEN node.label = company
           ELSE IF builder = "merged" THEN node.id = S_companyDash \o company
           ELSE IF builder = "perchain" THEN node.id = S_enterpriseDash \o NumToStr(c - 1) \o S_Dash \o NumToStr(k - 1)
           ELSE node.id = S_compDash \o Slug(company)

NodeSet == { graph.nodes[i] : i \in 1..Len(graph.nodes) }

\* C19: for every well-formed chain the edge set holds input -> policy,
\* policy -> sector and sector -> enterprise for every company of the chain;
\* a chain without a policy node has an empty or "None directly linked"
\* policy, and then the edge set holds input -> sector and no edge from a
\* policy node of that name to the chain's sector.
C19_ChainEdgesPresent ==
    Produced => \A c \in 1..Len(ChainsOf(data)) :
        LET chain == ChainsOf(data)[c]
            policies == { node \in NodeSet : node.type = "policy" /\ ResolvesToPolicy(c, node) }
            sectors == { node \in NodeSet : node.type = "sector" /\ ResolvesToSector(c, node) }
            inputs == { node \in NodeSet : IsInputOf(c, node) }
        IN  WellFormed(chain) =>
              /\ \E sector \in sectors, input \in inputs :
                    /\ \A k \in 1..Len(chain.companies.items) : \E company \in NodeSet : IsCompanyOf(c, k, company) /\ HasEdge(sector, company)
                    /\ IF policies # {}
                       THEN \E policy \in policies : HasEdge(input, policy) /\ HasEdge(policy, sector)
                       ELSE /\ ~Truthy(trim(chain.policy)) \/ chain.policy = S_NoneDirectlyLinked
                            /\ HasEdge(input, sector)
                            /\ \A node \in NodeSet : (node.type = "policy" /\ node.label = chain.policy) => ~HasEdge(node, sector)

\* the part_001 builder left out the policy tier of a chain whose policy is
\* the sentinel and drew its edges, next to a chain with a policy node
C19_Witness ==
    /\ Produced /\ builder = "memo"
    /\ \E c \in 1..Len(ChainsOf(data)) : WellFormed(ChainsOf(data)[c]) /\ ChainsOf(data)[c].policy = S_NoneDirectlyLinked
    /\ \E e \in 1..Len(graph.edges) : graph.edges[e].source = S_input1 /\ graph.nodes[FindById(graph.nodes, graph.edges[e].target)].type = "sector"
    /\ \E e \in 1..Len(graph.edges) : graph.nodes[FindById(graph.nodes, graph.edges[e].source)].type = "policy"

\* every node on screen has the position the layout gave it for the current
\* nodes, in columns or, for part_001 on a narrow window, in rows
LaidOut == DesktopLaidOut \/ (builder = "memo" /\ effectDeps.layout.ran /\ effectDeps.layout.nodes = builds)

\* the coordinate that indexes the nodes of a tier: y in columns, x in rows
AxisOf(node) == IF builder = "memo" /\ effectDeps.layout.isMobile THEN PositionOf(node).x ELSE PositionOf(node).y

\* when the entity of a node is first met while iterating the chains in
\* report order: the chain for a policy or a sector, the chain and the entry
\* for a company
FirstEncounter(node) ==
    LET chains == ChainsOf(data)
        met == IF node.type = "policy" THEN { << c, 0 >> : c \in { c \in 1..Len(chains) : ResolvesToPolicy(c, node) } }
               ELSE IF node.type = "sector" THEN { << c, 0 >> : c \in { c \in 1..Len(chains) : ResolvesToSector(c, node) } }
               ELSE { ck \in (1..Len(chains)) \X (1..2) : ~chains[ck[1]].isNull /\ ck[2] <= Len(chains[ck[1]].companies.items) /\ IsCompanyOf(ck[1], ck[2], node) }
    IN  CHOOSE m \in met : \A o \in met : m[1] < o[1] \/ (m[1] = o[1] /\ m[2] <= o[2])

Earlier(a, b) == FirstEncounter(a)[1] < FirstEncounter(b)[1] \/ (FirstEncounter(a)[1] = FirstEncounter(b)[1] /\ FirstEncounter(a)[2] < FirstEncounter(b)[2])

\* C20: within the policy, sector and enterprise tier the nodes are in
\* first-encounter order of their entities, in the builder's node list and
\* along the axis on which the layout indexes the tier.
C20_FirstEncounterOrder ==
    (builds >= 1 /\ ~graph.threw) => \A k \in 2..4 :
        LET list == TierNodes(k)
        IN  /\ \A i, j \in 1..Len(list) : i < j => Earlier(list[i], list[j])
            /\ LaidOut => \A i, j \in 1..Len(list) : Earlier(list[i], list[j]) => QLess(AxisOf(list[i]), AxisOf(list[j]))

(***************************************************************************)
(* Properties of the layout effects.                                       *)
(***************************************************************************)
\* no effect of the part_001 component is due: each ran with the current
\* values of its dependencies
MemoSettled == builder = "memo" /\ effectDeps.mounted /\ effectDeps.layout = LayoutDeps /\ effectDeps.dimensions = [ran |-> TRUE, isMobile |-> isMobile, height |-> QInt(0)]

\* no effect of the per-chain component is due
PerChainSettled == builder = "perchain" /\ effectDeps.mounted /\ effectDeps.layout.ran /\ effectDeps.layout.nodes = builds /\ effectDeps.dimensions = [ran |-> TRUE, isMobile |-> FALSE, height |-> dimensions.height]

EffectsSettled == MemoSettled \/ PerChainSettled

\* every node of the list has a position
Placed(list) == \A i \in 1..Len(list) : MapHas(nodePositions, list[i].id)

\* tiers on rows, top to bottom, the i-th of N nodes of a row at W * i / (N + 1)
InRows ==
    \A k \in 1..4 :
        /\ Placed(TierNodes(k))
        /\ \A i \in 1..Len(TierNodes(k)) :
              /\ PositionOf(TierNodes(k)[i]).x = QMul(dimensions.width, Q(i, Len(TierNodes(k)) + 1))
              /\ \A l \in k..4 : \A j \in 1..Len(TierNodes(l)) :
                    IF l = k THEN PositionOf(TierNodes(l)[j]).y = PositionOf(TierNodes(k)[i]).y
                    ELSE MapHas(nodePositions, TierNodes(l)[j].id) /\ QLess(PositionOf(TierNodes(k)[i]).y, PositionOf(TierNodes(l)[j]).y)

\* tiers on columns, left to right
InColumns ==
    \A k \in 1..4 :
        /\ Placed(TierNodes(k))
        /\ \A i \in 1..Len(TierNodes(k)) : \A l \in k..4 : \A j \in 1..Len(TierNodes(l)) :
              IF l = k THEN PositionOf(TierNodes(l)[j]).x = PositionOf(TierNodes(k)[i]).x
              ELSE MapHas(nodePositions, TierNodes(l)[j].id) /\ QLess(PositionOf(TierNodes(k)[i]).x, PositionOf(TierNodes(l)[j]).x)

\* C21: once the effects have run the mobile presentation is active exactly
\* when the window is narrower than 768; then the four tiers lie on four rows
\* in tier order, the i-th of N nodes of a row at x = W * (i + 1) / (N + 1)
\* (i from 0), and from 768 on they lie on four columns in tier order.
C21_RowsBelowBreakpoint ==
    (EffectsSettled /\ Len(Nodes) > 0) =>
        /\ isMobile <=> win.innerWidth < 768
        /\ IF win.innerWidth < 768 THEN InRows ELSE InColumns

\* number of nodes of the most populated tier
MaxTierNodeCount == CHOOSE m \in { Len(TierNodes(k)) : k \in 1..4 } : \A k \in 1..4 : Len(TierNodes(k)) <= m

\* the canvas size along the axis on which the nodes of a tier are stacked
StackingExtent == IF builder = "memo" /\ isMobile THEN dimensions.width ELSE dimensions.height

\* C22: once the effects have run, the canvas size along the stacking axis
\* is the larger of the floor 600 and maxTierNodeCount * (nodeHeight + gap) +
\* margin, with nodeHeight 100, gap 80 and margin 200: it grows with the most
\* populated tier and is never below the floor.
C22_CanvasGrowsWithLargestTier ==
    (EffectsSettled /\ Len(Nodes) > 0) =>
        /\ StackingExtent = QMax(QInt(600), QInt(MaxTierNodeCount * (100 + 80) + 200))
        /\ ~QLess(StackingExtent, QInt(600))

\* the layout of the current nodes for the current canvas and window class
CurrentLayout ==
    IF builder = "memo" THEN LayoutMemo(Nodes, dimensions, isMobile)
    ELSE IF Len(Nodes) > 0 THEN LayoutPerChain(Nodes, win.innerWidth).positions
    ELSE << >>

\* C23: after any sequence of builds, resize events and crossings of the 768
\* breakpoint, once every due effect has run, the stored node positions are
\* the layout computed from the current nodes, the current canvas dimensions
\* and the current mobile/desktop class; nothing stale remains.
C23_PositionsFollowViewport == EffectsSettled => nodePositions = CurrentLayout

(***************************************************************************)
(* Node labels: truncateText (part_001:550-555,                            *)
(* relationship-graph.tsx:950-955) and the title of the detail panel.      *)
(***************************************************************************)
S_Ellipsis == << ".", ".", "." >>

\* labels around the two budgets: 25, 15 and 21 characters
S_LongPolicy == << "S", "e", "m", "i", "c", "o", "n", "d", "u", "c", "t", "o", "r", " ", "S", "u", "p", "p", "o", "r", "t", " ", "A", "c", "t" >>

S_Name15 == << "A", "c", "m", "e", " ", "H", "o", "l", "d", "i", "n", "g", "s", " ", "X" >>

S_Name21 == << "A", "c", "m", "e", " ", "H", "o", "l", "d", "i", "n", "g", "s", " ", "L", "i", "m", "i", "t", "e", "d" >>

\* a truncation that cuts without the marker
truncateTextNoMarker(text, maxLength) ==
    IF ~Truthy(text) THEN S_NA
    ELSE IF Len(text) <= maxLength THEN text
    ELSE SubSeq(text, 1, maxLength)

\* truncateText: "N/A" for a falsy text, the text itself up to maxLength
\* characters, else substring(0, maxLength) + "..."
truncateText(text, maxLength) ==
    IF ~Truthy(text) THEN S_NA
    ELSE IF Len(text) <= maxLength THEN text
    ELSE SubSeq(text, 1, maxLength) \o S_Ellipsis

\* safeRender of "@/lib/utils": the text a value is shown as; a string is
\* shown as it is, an absent value as nothing
safeRender(value) == IF value = Undefined THEN EmptyString ELSE value

\* the character budget of the <text> element (part_001:378,
\* relationship-graph.tsx:739)
LabelBudget(mobile) == IF mobile THEN 15 ELSE 20

\* the text drawn inside the node
DrawnLabel(node) == truncateText(node.label, LabelBudget(isMobile))

\* first line of NodeTooltipContent (part_001:442, relationship-graph.tsx:820)
PanelTitle(node) == safeRender(OrElse(node.fullText, OrElse(node.label, S_NA)))

\* chains with labels on both sides of the budgets, and a chain object whose
\* fields are all absent
LabelChains == { InfluenceChain(S_A, S_LongPolicy, S_S1, Arr(<< S_Name15, S_Name21 >>), S_desc1, Arr(<< Ev1 >>)),
                 InfluenceChain(S_B, S_NoneDirectlyLinked, S_S2, Arr(<< S_C1 >>), S_desc1, Arr(<< Ev1 >>)),
                 [NullChain EXCEPT !.isNull = FALSE] }

LabelReports == { Report(chains) : chains \in UNION { [1..n -> LabelChains] : n \in 1..MaxChains } }

InitLabels == /\ data \in LabelReports
              /\ url = [query |-> Undefined, q |-> Undefined]
              /\ win \in Windows
              /\ InitBuilder
              /\ InitController
              /\ InitLayout

\* the two components that draw their labels with truncateText
NextLabels == RenderMemo \/ RenderPerChain \/ CheckMobileEffect \/ LayoutEffect \/ DimensionsEffect \/ LayoutEffectPerChain \/ DimensionsEffectPerChain \/ ResizeWindow

SpecLabels == InitLabels /\ [][NextLabels]_vars

\* the nodes the component draws: those with a position
DrawnNodes == { node \in NodeSet : MapHas(nodePositions, node.id) }

\* the strings a report holds for an entity, and the defaults the builders
\* fall back to
FullTexts(report) ==
    ({ ChainsOf(report)[c].politician : c \in 1..Len(ChainsOf(report)) }
    \cup { ChainsOf(report)[c].policy : c \in 1..Len(ChainsOf(report)) }
    \cup { ChainsOf(report)[c].industry_or_sector : c \in 1..Len(ChainsOf(report)) }
    \cup { CompanyMentions(ChainsOf(report))[k] : k \in 1..Len(CompanyMentions(ChainsOf(report))) }
    \cup { S_Unknown, S_UnknownSector, S_NoneDirectlyLinked }) \ { Undefined }

\* C24: the label drawn inside a node is the node's label unchanged when its
\* length is at most the character budget, otherwise the first budget
\* characters followed by "..."; the stored label and the title of the detail
\* panel are the untruncated text.
C24_LabelTruncatedOnlyWhenDrawn ==
    \A node \in DrawnNodes :
        /\ Len(node.label) <= LabelBudget(isMobile) => DrawnLabel(node) = node.label
        /\ Len(node.label) > LabelBudget(isMobile) =>
              /\ Len(DrawnLabel(node)) = LabelBudget(isMobile) + 3
              /\ SubSeq(DrawnLabel(node), 1, LabelBudget(isMobile)) = SubSeq(node.label, 1, LabelBudget(isMobile))
              /\ SubSeq(DrawnLabel(node), LabelBudget(isMobile) + 1, LabelBudget(isMobile) + 3) = S_Ellipsis
        /\ node.label \in FullTexts(data)
        /\ PanelTitle(node) = node.label

\* a drawn node whose label is cut at 15 characters on a narrow window while
\* another keeps its 15 characters
C24_Witness ==
    /\ isMobile
    /\ \E node \in DrawnNodes : Len(node.label) > 15 /\ Len(node.label) <= 20 /\ DrawnLabel(node) # node.label
    /\ \E node \in DrawnNodes : Len(node.label) = 15 /\ DrawnLabel(node) = node.label

(***************************************************************************)
(* Properties of the node and edge sets.                                   *)
(***************************************************************************)
\* names that hold the character the merged builder joins its links with
S_PipePolicy == << "P", "|", "1" >>

S_PipeCompany == << "C", "|", "1" >>

LinkChains == { InfluenceChain(S_A, S_P1, S_S1, Arr(<< S_C1, S_C2 >>), S_desc1, Arr(<< Ev1 >>)),
                InfluenceChain(S_A, S_PipePolicy, S_S1, Arr(<< S_C1 >>), S_desc1, Arr(<< Ev1 >>)),
                InfluenceChain(S_A, EmptyString, S_S2, Arr(<< S_PipeCompany >>), S_desc1, Arr(<< Ev1 >>)) }

LinkReports == { Report(chains) : chains \in UNION { [1..n -> LinkChains] : n \in 1..MaxChains } }

InitLinks == /\ data \in LinkReports
             /\ url = [query |-> Undefined, q |-> Undefined]
             /\ win = DesktopWindow
             /\ InitBuilder
             /\ InitController
             /\ InitLayout

\* the four builders on reports whose names hold a "|"
SpecLinks == InitLinks /\ [][NextBuild]_vars

HasNodeId(id) == FindById(graph.nodes, id) # 0

\* C25: every edge of the builder's edge set has a source id and a target id
\* that are ids of nodes of the builder's node set, also for chains with an
\* empty, blank or sentinel policy and for chains without a sector.
C25_NoDanglingEdge == Produced => \A e \in 1..Len(graph.edges) : HasNodeId(graph.edges[e].source) /\ HasNodeId(graph.edges[e].target)

\* the builders whose edges the claims on the edge set name: the edge lists
\* of part_001 and part_000 and the lines the per-chain component draws
EdgeBuilders == {"memo", "transform", "perchain"}

\* tier of the node with the given id: 1 input, 2 policy, 3 sector, 4 enterprise
TierOfId(id) ==
    LET type == graph.nodes[FindById(graph.nodes, id)].type
    IN  IF type = "input" THEN 1 ELSE IF type = "policy" THEN 2 ELSE IF type = "sector" THEN 3 ELSE 4

TierPairs == { << TierOfId(EdgeSet[e].source), TierOfId(EdgeSet[e].target) >> : e \in 1..Len(EdgeSet) }

\* C26: every edge goes from a node of an earlier tier to a node of a later
\* tier, and only along input -> policy, input -> sector, policy -> sector or
\* sector -> enterprise; so no edge ends at the input node or starts at an
\* enterprise node and the graph has no cycle.
C26_EdgesFollowTiers ==
    (Produced /\ builder \in EdgeBuilders) =>
        \A e \in 1..Len(EdgeSet) :
            /\ HasNodeId(EdgeSet[e].source) /\ HasNodeId(EdgeSet[e].target)
            /\ << TierOfId(EdgeSet[e].source), TierOfId(EdgeSet[e].target) >> \in { << 1, 2 >>, << 1, 3 >>, << 2, 3 >>, << 3, 4 >> }
            /\ TierOfId(EdgeSet[e].source) < TierOfId(EdgeSet[e].target)
            /\ TierOfId(EdgeSet[e].target) # 1 /\ TierOfId(EdgeSet[e].source) # 4

\* the part_001 builder made edges of all four kinds
C26_Witness == Produced /\ builder = "memo" /\ TierPairs = { << 1, 2 >>, << 1, 3 >>, << 2, 3 >>, << 3, 4 >> }

\* ids reached from the ids of a set by following at most n edges
RECURSIVE Reach(_, _)
Reach(ids, n) ==
    IF n = 0 THEN ids
    ELSE Reach(ids \cup { EdgeSet[e].target : e \in { e \in 1..Len(EdgeSet) : EdgeSet[e].source \in ids } }, n - 1)

ReachableFrom(id) == Reach({id}, Len(graph.nodes))

HasIncomingEdge(id) == \E e \in 1..Len(EdgeSet) : EdgeSet[e].target = id

\* C27: for a report with at least one chain every policy, sector and
\* enterprise node is reachable from the input node along the edges, and
\* every node but the input node has an incoming edge.
C27_AllReachableFromInput ==
    (Produced /\ builder \in EdgeBuilders /\ ~IsEmptyReport(data)) =>
        \A input \in NodeSet : input.type = "input" =>
            \A node \in NodeSet : node.type # "input" => (node.id \in ReachableFrom(input.id) /\ HasIncomingEdge(node.id))

NodeIds == [i \in 1..Len(graph.nodes) |-> graph.nodes[i].id]

EdgeIds == [e \in 1..Len(EdgeSet) |-> EdgeSet[e].id]

\* C28: the ids of the nodes of the node set are pairwise distinct, also
\* across tiers, and the ids of the edges of the edge set are pairwise
\* distinct.
C28_IdsPairwiseDistinct == (Produced /\ builder \in EdgeBuilders) => (PairwiseDistinct(NodeIds) /\ PairwiseDistinct(EdgeIds))

\* transformToGraphData met a sector and its companies a second time and
\* numbered the edges of two chains
C28_Witness ==
    /\ Produced /\ builder = "transform"
    /\ Len(ChainsOf(data)) = 2
    /\ Cardinality(NodesOfType(graph, {"sector"})) = 1
    /\ Cardinality(NodesOfType(graph, {"policy"})) = 2
    /\ Len(graph.edges) >= 6

(***************************************************************************)
(* A new report for a mounted graph: AnalysisContent hands apiResponse to  *)
(* RelationshipGraph (analysis-content.tsx:119), and a response that       *)
(* arrives while the result view is shown replaces the data prop without   *)
(* unmounting the graph; useMemo then rebuilds the nodes (dependency       *)
(* [data], part_001:200, relationship-graph.tsx:495).                      *)
(***************************************************************************)
\* reports that follow one another: no chain, one chain, two chains
ReportFeed == { Report(<< >>),
                Report(<< InfluenceChain(S_A, S_P1, S_S1, Arr(<< S_C1, S_C2 >>), S_desc1, Arr(<< Ev1 >>)) >>),
                Report(<< InfluenceChain(S_A, S_P1, S_S1, Arr(<< S_C1, S_C2 >>), S_desc1, Arr(<< Ev1 >>)), InfluenceChain(S_A, S_NoneDirectlyLinked, S_S2, Arr(<< S_Acme >>), S_desc1, Arr(<< Ev1 >>)) >>) }

\* the data prop changes and the useMemo of the mounted component runs again
ReceiveReport(report) ==
    /\ builds = 1
    /\ builder \in {"memo", "perchain"}
    /\ report # data
    /\ data' = report
    /\ graph2' = IF builder = "memo" THEN BuildMemo(report) ELSE BuildPerChain(report)
    /\ builds' = 2
    /\ UNCHANGED << builder, graph, rng, selectionVars, controllerVars, layoutVars >>

ReportChange == \E report \in ReportFeed : ReceiveReport(report)

NextReports == RenderMemo \/ RenderPerChain \/ ReportChange \/ CheckMobileEffect \/ LayoutEffect \/ DimensionsEffect \/ LayoutEffectPerChain \/ DimensionsEffectPerChain \/ ResizeWindow

InitReports == /\ data \in ReportFeed
               /\ url = [query |-> Undefined, q |-> Undefined]
               /\ win \in Windows
               /\ InitBuilder
               /\ InitController
               /\ InitLayout

SpecReports == InitReports /\ [][NextReports]_vars

\* the layout effect has run for the current nodes
LayoutRanForNodes == builder \in {"memo", "perchain"} /\ effectDeps.layout.ran /\ effectDeps.layout.nodes = builds

====
